---- MODULE Spec2Model ----
(***************************************************************************)
(* A model of the go-spring IoC core: the bean resolver (package           *)
(* resolving), the global registry (package gs_init) and the application   *)
(* runtime (package gs_app with its starter in package gs).                *)
(***************************************************************************)
EXTENDS Integers, Sequences, FiniteSets, TLC

(***************************************************************************)
(* Bounds of the model.                                                    *)
(***************************************************************************)
\* registrations made before a Refresh: global beans, modules, container beans
MaxBeans == 2
\* Refresh calls made on one container
MaxRefreshCalls == 2
\* Server beans wired into App.Servers
MaxServers == 2

\* Server beans wired into App.Servers when only App.Start is followed
MaxGateServers == 3
\* Runner beans wired into App.Runners
MaxRunners == 2
\* AppStarter.Stop calls made by other goroutines after Start returned nil
MaxStopCalls == 2
\* calls of Export made on one bean definition
MaxExportCalls == 2
\* calls of Resolve made on one Properties
MaxResolveCalls == 2
\* calls made of one condition OnOnce built
MaxOnceCalls == 3
\* conditions one OnOnce call wraps
MaxWrapped == 2

(***************************************************************************)
(* gs_bean.BeanStatus.  The const block starts with StatusDeleted, so iota *)
(* is 1 on the line of StatusDefault.                                      *)
(***************************************************************************)
StatusDeleted == -1
StatusDefault == 1
StatusResolving == 2
StatusResolved == 3
StatusCreating == 4
StatusCreated == 5
StatusWired == 6

\* the ConstSpecs of the block, in the order of the source
StatusConstSpecs ==
    <<"StatusDeleted", "StatusDefault", "StatusResolving", "StatusResolved",
      "StatusCreating", "StatusCreated", "StatusWired">>

\* iota on the line of a constant: the index of its ConstSpec, from zero
iota(name) == (CHOOSE i \in DOMAIN StatusConstSpecs : StatusConstSpecs[i] = name) - 1

\* the value the block gives a constant: StatusDeleted has its own
\* expression, the others BeanStatus(iota), written out or repeated
StatusValue(name) == IF name = "StatusDeleted" THEN -1 ELSE iota(name)

\* the status of a BeanDefinition no constructor has set
ZeroStatus == 0

\* BeanStatus.String
StatusString(status) ==
    CASE status = StatusDeleted -> "deleted"
      [] status = StatusDefault -> "default"
      [] status = StatusResolving -> "resolving"
      [] status = StatusResolved -> "resolved"
      [] status = StatusCreating -> "creating"
      [] status = StatusCreated -> "created"
      [] status = StatusWired -> "wired"
      [] OTHER -> "unknown"

(***************************************************************************)
(* resolving.RefreshState                                                  *)
(***************************************************************************)
RefreshDefault == 0
RefreshPrepare == 1
Refreshing == 2
Refreshed == 3

(***************************************************************************)
(* The types of the modelled program.  T1 stands for a struct pointer with *)
(* the methods Echo, NewChild and NewChildV2 (as *TestBean of the tests),  *)
(* T2 for one without methods to scan, Child for the type the methods of   *)
(* T1 return; I is an interface type T1 and T2 implement.  NilType is the  *)
(* nil reflect.Type of a selector.                                         *)
(***************************************************************************)
NilType == ""
BeanTypes == {"T1", "T2"}

\* reflect.Type.Method(i), sorted by name
Methods(t) == IF t = "T1" THEN <<"Echo", "NewChild", "NewChildV2">> ELSE <<>>

\* the type a method of T1 returns
MethodOut(t, m) == "Child"

(***************************************************************************)
(* Conditions.  A condition is a record; sel is the BeanID a bean          *)
(* condition looks up, res the outcome of an OnFunc function, key the      *)
(* property an OnProperty condition tests.                                 *)
(***************************************************************************)
BeanID(t, n) == [type |-> t, name |-> n]
NoSel == BeanID(NilType, "")

OnBean(sel) == [kind |-> "OnBean", sel |-> sel, res |-> "", key |-> ""]
OnMissingBean(sel) == [kind |-> "OnMissingBean", sel |-> sel, res |-> "", key |-> ""]
OnSingleBean(sel) == [kind |-> "OnSingleBean", sel |-> sel, res |-> "", key |-> ""]
OnBeanID(sel) == OnBean(sel)
OnFunc(res) == [kind |-> "OnFunc", sel |-> NoSel, res |-> res, key |-> ""]
OnProperty(key) == [kind |-> "OnProperty", sel |-> NoSel, res |-> "", key |-> key]

IsBeanCond(c) == c.kind \in {"OnBean", "OnMissingBean", "OnSingleBean"}

\* the result of a bean condition, from the beans Find returned
BeanCondResult(c, found) ==
    CASE c.kind = "OnBean" -> Len(found) > 0
      [] c.kind = "OnMissingBean" -> Len(found) = 0
      [] c.kind = "OnSingleBean" -> Len(found) = 1

(***************************************************************************)
(* gs_bean.BeanDefinition                                                  *)
(***************************************************************************)
NoCfg == [on |-> FALSE, includes |-> <<>>, excludes |-> <<>>]

makeBean(t, name) ==
    [type |-> t, name |-> name, exports |-> <<>>, conds |-> <<>>,
     status |-> StatusDefault, cfg |-> NoCfg]

\* NewBean of an instance: the name is derived from the type
NewBean(t) == makeBean(t, t)

Name(d, name) == [d EXCEPT !.name = name]

Contains(s, x) == \E i \in DOMAIN s : s[i] = x

\* a slip in Export: the type is appended without looking for it
Export_Always(d, t) == [d EXCEPT !.exports = Append(@, t)]

Export(d, t) ==
    IF Contains(d.exports, t) THEN d ELSE [d EXCEPT !.exports = Append(@, t)]

Condition(d, c) == [d EXCEPT !.conds = Append(@, c)]

Configuration(d, inc, exc) ==
    [d EXCEPT !.cfg = [on |-> TRUE, includes |-> inc, excludes |-> exc]]

SetStatus(d, s) == [d EXCEPT !.status = s]

\* NewBean of a bound method with its receiver bean as first argument: the
\* name is the method's, the condition requires the receiver bean
NewMethodBean(m, bd) ==
    Condition(makeBean(MethodOut(bd.type, m), m),
              OnBeanID(BeanID(bd.type, bd.name)))

(***************************************************************************)
(* The state.                                                              *)
(***************************************************************************)
VARIABLES
    state,        \* Resolving.state
    beans,        \* Resolving.beans
    globalBeans,  \* gs_init.beans
    modules,      \* gs_init.modules
    props,        \* the conf.Properties passed to Refresh: the keys it has
    pc,           \* the phase the running Refresh is in, "idle" when none runs
    idx,          \* the index of the loop of resolveBeans
    stack,        \* the resolveBean calls in progress, innermost first
    rets,         \* what the Refresh calls made so far returned
    provided      \* what the last Provide call on the container did

rvars == <<state, beans, globalBeans, modules, props, pc, idx, stack, rets, provided>>

VARIABLES
    mode,         \* how the AppStarter is driven: "Run", or "Start" followed by Stop calls
    nServers,     \* len(app.Servers)
    nRunners,     \* len(app.Runners)
    mpc,          \* the position of the goroutine that calls AppStarter.Run or Start
    mk,           \* the index of the loop over the runners or the servers in App.Start
    startRet,     \* what App.Start returned, "none" before
    readyLogs,    \* the 'ready to serve requests' lines logged
    containerUp,  \* the container refresh inside Start succeeded
    exiting,      \* App.exiting
    ctxDone,      \* the root context is cancelled
    cancelCalls,  \* the calls of app.cancel made
    shutLogs,     \* the 'shutting down' lines logged
    shutCalls,    \* the ShutDown calls made
    sigCount,     \* ReadySignalImpl.wg, its counter
    sigB,         \* ReadySignalImpl.b
    sigClosed,    \* ReadySignalImpl.ch is closed
    appWg,        \* App.wg, its counter
    srv,          \* per server: the goroutine Start launched for it
    stops,        \* per server: the goroutines started to call its Stop
    wpc,          \* per caller of ShutDown and WaitForShutdown: its position
    sgpc,         \* the position of the signal goroutine of AppStarter.Run
    closes,       \* the calls of Container.Close made
    completes,    \* the 'shutdown complete' lines logged
    stopped,      \* per server: the calls of its Stop that returned
    stopErrLogs,  \* the 'shutdown server failed' lines logged
    runs          \* the runners Start has run, in the order of the calls, with what they returned

avars == <<mode, nServers, nRunners, mpc, mk, startRet, readyLogs, containerUp,
           exiting, ctxDone, cancelCalls, shutLogs, shutCalls, sigCount, sigB,
           sigClosed, appWg, srv, stops, wpc, sgpc, closes, completes,
           stopped, stopErrLogs, runs>>

\* the goroutines WaitForShutdown starts, as far as they have gone
svars == <<stopped, stopErrLogs>>

VARIABLES
    onceDone,     \* OnOnce: done, a variable the returned function captures
    onceResult,   \* OnOnce: result, the other one
    wrapped,      \* per wrapped condition: what its Matches returns when called now
    oncePc,       \* "evaluating" while the call that found done unset is inside And(...).Matches
    onceLog,      \* the calls of the OnOnce condition that returned, in the order of their returns
    onceEvals     \* the calls made of And(conditions...).Matches

ovars == <<onceDone, onceResult, wrapped, oncePc, onceLog, onceEvals>>

VARIABLES
    cin,          \* what AppConfig.Refresh reads: c.Properties, the environment, the command line, the files, useImport
    cpc,          \* the position of the AppConfig.Refresh call
    cp,           \* Refresh: p
    localFiles,   \* Refresh: localFiles
    imports,      \* Refresh: i.Imports, and how far the loop over it has gone
    csources,     \* Refresh: the sources made of the imports loaded so far
    loads,        \* the calls of provider.Load made, with what they returned
    cret          \* what AppConfig.Refresh returned

cvars == <<cin, cpc, cp, localFiles, imports, csources, loads, cret>>

VARIABLES
    ebean,        \* a BeanDefinition on which Export is called
    elog          \* the Export calls made on it: the arguments, the exports before and after, the panic

evars == <<ebean, elog>>

VARIABLES
    sprops,       \* a Properties on which Resolve is called
    slog          \* the Resolve calls made on it: the string, the result, the error

pvars == <<sprops, slog>>

VARIABLES
    started,      \* gs.started
    gcall         \* the outcome of the last gs.Provide, gs.Module or gs.Group call: "ok" or the panic

gvars == <<started, gcall>>

vars == <<rvars, avars, ovars, cvars, evars, pvars, gvars>>

(***************************************************************************)
(* The inputs: the bean definitions, modules and properties the callers    *)
(* register.                                                               *)
(***************************************************************************)
PropKeys == {"k"}

CondChoices ==
    {<<>>,
     <<OnBean(BeanID("T1", ""))>>,
     <<OnMissingBean(BeanID("T2", ""))>>,
     <<OnSingleBean(BeanID("I", ""))>>,
     <<OnProperty("k")>>,
     <<OnFunc("false")>>,
     <<OnFunc("error")>>,
     <<OnFunc("false"), OnFunc("error")>>}

WithConds(d, cs) == [d EXCEPT !.conds = @ \o cs]

ShapeChoices ==
    {NewBean(t) : t \in BeanTypes}
        \cup {Export(Name(NewBean(t), "a"), "I") : t \in BeanTypes}

ConfigurationChoices ==
    {Configuration(WithConds(NewBean("T1"), cs), pat[1], pat[2]) :
        cs \in {<<>>, <<OnProperty("k")>>},
        pat \in {<< <<>>, <<>> >>, << <<>>, <<"^NewChild$">> >>, << <<"*">>, <<>> >>}}

BeanChoices ==
    {WithConds(d, cs) : d \in ShapeChoices, cs \in CondChoices}
        \cup ConfigurationChoices

GlobalBeanChoices ==
    {NewBean("T2"),
     WithConds(NewBean("T2"), <<OnBean(BeanID("T1", ""))>>),
     Export(Name(NewBean("T1"), "a"), "I")}

\* a module: the property keys its conditions require, the beans its function
\* provides and whether the function returns an error after providing them
Module(keys, bs, fails) == [keys |-> keys, provides |-> bs, fails |-> fails]

ModuleChoices ==
    {Module(<<>>, <<NewBean("T1")>>, FALSE),
     Module(<<"k">>, <<WithConds(NewBean("T2"), <<OnMissingBean(BeanID("T1", ""))>>)>>, FALSE),
     Module(<<>>, <<NewBean("T2")>>, TRUE)}

(***************************************************************************)
(* package resolving                                                       *)
(***************************************************************************)
\* Resolving.Beans
Beans == SelectSeq(beans, LAMBDA b : b.status # StatusDeleted)

\* regexp.Compile and Regexp.MatchString on the patterns of the model
ValidRegexp(p) == p # "*"

MatchString(p, m) ==
    CASE p = "New.*" -> m \in {"NewChild", "NewChildV2"}
      [] p = "^NewChild$" -> m = "NewChild"
      [] OTHER -> FALSE

\* scanConfiguration: the beans made of the methods of bd, "err" for a
\* pattern that does not compile
scanConfiguration(bd) ==
    LET includes == IF Len(bd.cfg.includes) = 0 THEN <<"New.*">> ELSE bd.cfg.includes
        excludes == bd.cfg.excludes
        ms == Methods(bd.type)
        skip(m) == \E i \in DOMAIN excludes : MatchString(excludes[i], m)
        take(m) == ~skip(m) /\ \E i \in DOMAIN includes : MatchString(includes[i], m)
        derived(m) ==
            Condition(Name(NewMethodBean(m, bd), bd.name \o "_" \o m),
                      OnBeanID(BeanID(bd.type, bd.name)))
        RECURSIVE collect(_)
        collect(i) ==
            IF i > Len(ms) THEN <<>>
            ELSE (IF take(ms[i]) THEN <<derived(ms[i])>> ELSE <<>>) \o collect(i + 1)
    IN  IF \E i \in DOMAIN includes : ~ValidRegexp(includes[i]) THEN [err |-> TRUE, beans |-> <<>>]
        ELSE IF \E i \in DOMAIN excludes : ~ValidRegexp(excludes[i]) THEN [err |-> TRUE, beans |-> <<>>]
        ELSE [err |-> FALSE, beans |-> collect(1)]

\* scanConfigurations: ranges over the beans held when the loop starts and
\* appends what each configuration bean yields
RECURSIVE scanLoop(_, _, _)
scanLoop(orig, i, bs) ==
    IF i > Len(orig) THEN [err |-> FALSE, beans |-> bs]
    ELSE IF ~orig[i].cfg.on THEN scanLoop(orig, i + 1, bs)
    ELSE LET r == scanConfiguration(orig[i])
         IN  IF r.err THEN [err |-> TRUE, beans |-> bs]
             ELSE scanLoop(orig, i + 1, bs \o r.beans)

\* a slip in Refresh: the error of scanConfigurations is dropped
scanConfigurations_ErrorDropped(bs) == [err |-> FALSE, beans |-> scanLoop(bs, 1, bs).beans]

scanConfigurations(bs) == scanLoop(bs, 1, bs)

\* applyModules: runs the function of every module whose conditions match;
\* the function provides its beans on the container (state RefreshPrepare)
RECURSIVE applyLoop(_, _, _, _)
applyLoop(ms, i, p, bs) ==
    IF i > Len(ms) THEN [err |-> FALSE, beans |-> bs]
    ELSE IF \E k \in DOMAIN ms[i].keys : ms[i].keys[k] \notin p
         THEN applyLoop(ms, i + 1, p, bs)
         ELSE IF ms[i].fails THEN [err |-> TRUE, beans |-> bs \o ms[i].provides]
              ELSE applyLoop(ms, i + 1, p, bs \o ms[i].provides)

applyModules(ms, p, bs) == applyLoop(ms, 1, p, bs)

\* a slip in isBeanMatched: the exported types of the bean are not looked at
isBeanMatched_ExportsIgnored(t, s, b) ==
    IF s # "" /\ s # b.name THEN FALSE
    ELSE IF t # NilType /\ t # b.type THEN FALSE
    ELSE TRUE

\* isBeanMatched
isBeanMatched(t, s, b) ==
    IF s # "" /\ s # b.name THEN FALSE
    ELSE IF t # NilType /\ t # b.type /\ ~Contains(b.exports, t) THEN FALSE
    ELSE TRUE

\* checkDuplicateBeans: TRUE when it returns the duplicate error
RECURSIVE dupTypes(_, _, _, _)
dupTypes(name, ts, k, ids) ==
    IF k > Len(ts) THEN [dup |-> FALSE, ids |-> ids]
    ELSE IF <<name, ts[k]>> \in ids THEN [dup |-> TRUE, ids |-> ids]
    ELSE dupTypes(name, ts, k + 1, ids \cup {<<name, ts[k]>>})

RECURSIVE dupLoop(_, _, _)
dupLoop(bs, i, ids) ==
    IF i > Len(bs) THEN FALSE
    ELSE IF bs[i].status = StatusDeleted THEN dupLoop(bs, i + 1, ids)
    ELSE LET r == dupTypes(bs[i].name, Append(bs[i].exports, bs[i].type), 1, ids)
         IN  IF r.dup THEN TRUE ELSE dupLoop(bs, i + 1, r.ids)

\* a slip in checkDuplicateBeans: only the own type of a bean is entered
checkDuplicateBeans_OwnTypeOnly(bs) ==
    dupLoop([i \in DOMAIN bs |-> [bs[i] EXCEPT !.exports = <<>>]], 1, {})

checkDuplicateBeans(bs) == dupLoop(bs, 1, {})

\* a slip in the first test of Refresh: only a completed refresh is refused
refreshRefused_OnlyRefreshed(st) == st = Refreshed

\* the first test of Refresh
refreshRefused(st) == st # RefreshDefault

\* a slip in the guard of resolveBean: Default counts as already visited
resolveBeanSkips_FromDefault(status) == status >= StatusDefault

\* the guard of resolveBean: a bean that is Resolving or later is left alone
resolveBeanSkips(status) == status >= StatusResolving

\* a slip in Find: a bean that is being resolved is not passed over
findSkips_DeletedOnly(status) == status = StatusDeleted

\* the test Find makes before it looks at a bean at all
findSkips(status) == status = StatusResolving \/ status = StatusDeleted

\* a call of resolveBean in progress: the bean, the condition it is at and,
\* when this condition is inside Find, the bean Find is at and the beans found
Frame(b) == [b |-> b, ci |-> 1, j |-> 1, found |-> <<>>]

\* a slip in Find and resolveBean: a bean that is being resolved is looked at
\* and resolved like one that is Default
RECURSIVE findScan_Revisit(_, _, _, _)
findScan_Revisit(bs, sel, j, found) ==
    IF j > Len(bs) THEN [call |-> FALSE, j |-> j, found |-> found]
    ELSE IF bs[j].status = StatusDeleted THEN findScan_Revisit(bs, sel, j + 1, found)
    ELSE IF ~isBeanMatched(sel.type, sel.name, bs[j]) THEN findScan_Revisit(bs, sel, j + 1, found)
    ELSE IF bs[j].status # StatusResolved THEN [call |-> TRUE, j |-> j, found |-> found]
    ELSE findScan_Revisit(bs, sel, j + 1, Append(found, j))

\* Find, from bean j on, up to its return (call = FALSE) or up to the bean
\* it has to resolve first (call = TRUE)
RECURSIVE findScan(_, _, _, _)
findScan(bs, sel, j, found) ==
    IF j > Len(bs) THEN [call |-> FALSE, j |-> j, found |-> found]
    ELSE IF findSkips(bs[j].status) THEN findScan(bs, sel, j + 1, found)
    ELSE IF ~isBeanMatched(sel.type, sel.name, bs[j]) THEN findScan(bs, sel, j + 1, found)
    ELSE IF ~resolveBeanSkips(bs[j].status) THEN [call |-> TRUE, j |-> j, found |-> found]
    ELSE findScan(bs, sel, j + 1, Append(found, j))

\* what the first n positions of the registrations count
Registered ==
    Len(beans) + (IF state = RefreshDefault THEN Len(globalBeans) + Len(modules) ELSE 0)

\* resolving.New, with the global registry empty
ResolvingInit ==
    /\ state = RefreshDefault
    /\ beans = <<>>
    /\ globalBeans = <<>>
    /\ modules = <<>>
    /\ props = {}
    /\ pc = "idle"
    /\ idx = 0
    /\ stack = <<>>
    /\ rets = <<>>
    /\ provided = "none"

\* gs_init.Provide
InitProvide(d) ==
    /\ pc = "idle" /\ state = RefreshDefault
    /\ Registered < MaxBeans
    /\ globalBeans' = Append(globalBeans, d)
    /\ UNCHANGED <<state, beans, modules, props, pc, idx, stack, rets, provided>>
    /\ UNCHANGED <<avars, ovars, cvars, evars, pvars>>

\* gs_init.AddModule
AddModule(m) ==
    /\ pc = "idle" /\ state = RefreshDefault
    /\ Registered < MaxBeans
    /\ modules' = Append(modules, m)
    /\ UNCHANGED <<state, beans, globalBeans, props, pc, idx, stack, rets, provided>>
    /\ UNCHANGED <<avars, ovars, cvars, evars, pvars>>

\* a slip in Provide: only a refreshed container rejects the bean
providePanics_OnlyRefreshed(st) == st = Refreshed

\* if c.state >= Refreshing
providePanics(st) == st >= Refreshing

\* Resolving.Provide, called from outside a Refresh, in a state that accepts
\* the bean
Provide(d) ==
    /\ pc = "idle"
    /\ ~providePanics(state)
    /\ Registered < MaxBeans
    /\ beans' = Append(beans, d)
    /\ provided' = "ok"
    /\ UNCHANGED <<state, globalBeans, modules, props, pc, idx, stack, rets>>
    /\ UNCHANGED <<avars, ovars, cvars, evars, pvars, gvars>>

\* Resolving.Provide, called from outside a Refresh, in a state in which it
\* panics, whatever the bean
ProvidePanic ==
    /\ pc = "idle"
    /\ providePanics(state)
    /\ provided' = "panic"
    /\ UNCHANGED <<state, beans, globalBeans, modules, props, pc, idx, stack, rets>>
    /\ UNCHANGED <<avars, ovars, cvars, evars, pvars, gvars>>

\* a slip in Refresh: the beans of the global registry go behind
withGlobalBeans_Behind(gs, bs) == bs \o gs

\* c.beans = append(gs_init.Beans(), c.beans...)
withGlobalBeans(gs, bs) == gs \o bs

\* Resolving.Refresh, up to the end of applyModules
Refresh(p) ==
    /\ pc = "idle"
    /\ Len(rets) < MaxRefreshCalls
    /\ IF refreshRefused(state)
       THEN /\ rets' = Append(rets, "already")
            /\ UNCHANGED <<state, beans, props, pc>>
       ELSE LET r == applyModules(modules, p, withGlobalBeans(globalBeans, beans))
            IN  /\ beans' = r.beans
                /\ props' = p
                /\ IF r.err
                   THEN /\ state' = RefreshPrepare
                        /\ rets' = Append(rets, "module")
                        /\ UNCHANGED pc
                   ELSE /\ state' = Refreshing
                        /\ pc' = "scan"
                        /\ UNCHANGED rets
    /\ UNCHANGED <<globalBeans, modules, idx, stack, provided>>
    /\ UNCHANGED <<avars, ovars, cvars, evars, pvars, gvars>>

\* Refresh: scanConfigurations
ScanPhase ==
    /\ pc = "scan"
    /\ LET r == scanConfigurations(beans)
       IN  /\ beans' = r.beans
           /\ IF r.err
              THEN /\ rets' = Append(rets, "scan")
                   /\ pc' = "idle"
                   /\ UNCHANGED idx
              ELSE /\ pc' = "resolve"
                   /\ idx' = 1
                   /\ UNCHANGED rets
    /\ UNCHANGED <<state, globalBeans, modules, props, stack, provided>>
    /\ UNCHANGED <<avars, ovars, cvars, evars, pvars, gvars>>

\* resolveBeans: one iteration of its loop, up to the first condition of the
\* bean, or the end of the loop
ResolveNext ==
    /\ pc = "resolve" /\ stack = <<>>
    /\ IF idx > Len(beans)
       THEN /\ pc' = "dup"
            /\ UNCHANGED <<beans, idx, stack>>
       ELSE IF resolveBeanSkips(beans[idx].status)
       THEN /\ idx' = idx + 1
            /\ UNCHANGED <<beans, pc, stack>>
       ELSE /\ beans' = [beans EXCEPT ![idx].status = StatusResolving]
            /\ stack' = <<Frame(idx)>>
            /\ UNCHANGED <<pc, idx>>
    /\ UNCHANGED <<state, globalBeans, modules, props, rets, provided>>
    /\ UNCHANGED <<avars, ovars, cvars, evars, pvars, gvars>>

\* the return of the innermost resolveBean, the statuses being bs: to the
\* loop of resolveBeans, or into Find, which counts the bean unless Deleted
ReturnTo(bs) ==
    LET f == Head(stack)
        callers == Tail(stack)
    IN  /\ beans' = bs
        /\ IF callers = <<>>
           THEN /\ stack' = <<>>
                /\ idx' = idx + 1
           ELSE /\ stack' = <<[callers[1] EXCEPT
                                 !.j = @ + 1,
                                 !.found = IF bs[f.b].status = StatusDeleted THEN @ ELSE Append(@, f.b)]>>
                             \o Tail(callers)
                /\ UNCHANGED idx

\* a slip in resolveBean: the error of Matches is dropped
matchesFailed_Never(outcome) == FALSE

\* if ok, err := cond.Matches(c); err != nil
matchesFailed(outcome) == outcome = "error"

\* resolveBean: the next condition of the innermost bean being resolved
EvalCondition ==
    /\ pc = "resolve" /\ stack # <<>>
    /\ LET f == Head(stack)
           c == beans[f.b].conds[f.ci]
           r == findScan(beans, c.sel, f.j, f.found)
           outcome ==
               CASE c.kind = "OnFunc" -> c.res
                 [] c.kind = "OnProperty" -> IF c.key \in props THEN "true" ELSE "false"
                 [] OTHER -> IF BeanCondResult(c, r.found) THEN "true" ELSE "false"
       IN  /\ f.ci <= Len(beans[f.b].conds)
           /\ IF IsBeanCond(c) /\ r.call
              THEN /\ beans' = [beans EXCEPT ![r.j].status = StatusResolving]
                   /\ stack' = <<Frame(r.j), [f EXCEPT !.j = r.j, !.found = r.found]>>
                                   \o Tail(stack)
                   /\ UNCHANGED <<pc, idx, rets>>
              ELSE IF matchesFailed(outcome)
              THEN /\ rets' = Append(rets, "resolve")
                   /\ pc' = "idle"
                   /\ stack' = <<>>
                   /\ UNCHANGED <<beans, idx>>
              ELSE IF outcome = "false"
              THEN /\ ReturnTo([beans EXCEPT ![f.b].status = StatusDeleted])
                   /\ UNCHANGED <<pc, rets>>
              ELSE /\ stack' = <<[f EXCEPT !.ci = @ + 1, !.j = 1, !.found = <<>>]>> \o Tail(stack)
                   /\ UNCHANGED <<beans, pc, idx, rets>>
    /\ UNCHANGED <<state, globalBeans, modules, props, provided>>
    /\ UNCHANGED <<avars, ovars, cvars, evars, pvars, gvars>>

\* resolveBean: every condition matched
ResolveDone ==
    /\ pc = "resolve" /\ stack # <<>>
    /\ LET f == Head(stack)
       IN  /\ f.ci > Len(beans[f.b].conds)
           /\ ReturnTo([beans EXCEPT ![f.b].status = StatusResolved])
    /\ UNCHANGED <<state, globalBeans, modules, props, pc, rets, provided>>
    /\ UNCHANGED <<avars, ovars, cvars, evars, pvars, gvars>>

\* Refresh: checkDuplicateBeans and the end
DuplicatePhase ==
    /\ pc = "dup"
    /\ pc' = "idle"
    /\ IF checkDuplicateBeans(beans)
       THEN /\ rets' = Append(rets, "dup")
            /\ UNCHANGED state
       ELSE /\ state' = Refreshed
            /\ rets' = Append(rets, "nil")
    /\ UNCHANGED <<beans, globalBeans, modules, props, idx, stack, provided>>
    /\ UNCHANGED <<avars, ovars, cvars, evars, pvars, gvars>>

ResolvingNext ==
    \/ \E d \in GlobalBeanChoices : InitProvide(d) /\ UNCHANGED gvars
    \/ \E m \in ModuleChoices : AddModule(m) /\ UNCHANGED gvars
    \/ \E d \in BeanChoices : Provide(d)
    \/ ProvidePanic
    \/ \E p \in SUBSET PropKeys : Refresh(p)
    \/ ScanPhase
    \/ ResolveNext
    \/ EvalCondition
    \/ ResolveDone
    \/ DuplicatePhase

(***************************************************************************)
(* package gs_app: ReadySignalImpl, App.Start, App.ShutDown and            *)
(* App.WaitForShutdown, and the AppStarter of package gs that drives them. *)
(*                                                                         *)
(* A server's Run is code of the application.  It may call TriggerAndWait  *)
(* once and then wait for the channel, it may give up that wait when the   *)
(* root context is cancelled, and it may return nil, http.ErrServerClosed  *)
(* or another error, or panic, whenever it is not blocked.                 *)
(***************************************************************************)
Servers == 1 .. nServers

\* the places of app.Servers a container can fill
ServerSlots == 1 .. MaxServers

\* the callers of ShutDown and WaitForShutdown: 0 is the goroutine of
\* AppStarter.Run, the others call AppStarter.Stop
Waiters == 0 .. MaxStopCalls

RunOutcomes == {"nil", "closed", "error", "panic"}

\* err == nil || errors.Is(err, http.ErrServerClosed): the server closed
serverClosed(out) == out \in {"nil", "closed"}

\* the goroutine of a server before Start launches it.  out is how Run ended
\* ("closed", "error" or "panic"), ready whether Run called TriggerAndWait,
\* rec whether the deferred recover function runs, pan the panic that leaves
\* the goroutine, late whether Run failed after Start had returned nil
NewServer ==
    [pc |-> "idle", out |-> "", ready |-> FALSE, rec |-> FALSE, pan |-> "", late |-> FALSE]

\* a slip in ShutDown: the flag is stored without being tested
casExiting_Store(old) == TRUE

\* atomic.Bool.CompareAndSwap(false, true) on App.exiting: whether it swaps
casExiting(old) == old = FALSE

\* a slip in Start: the ready signal is not asked whether it was intercepted
Intercepted_Never(b) == FALSE

\* ReadySignalImpl.Intercepted
Intercepted(b) == b

\* sync.WaitGroup.Done panics when the counter becomes negative
wgNegative(n) == n < 0

\* gs_app.NewApp, and the beans the container wires into the App
AppInit(m, ns, nr) ==
    /\ mode = m
    /\ nServers = ns
    /\ nRunners = nr
    /\ mpc = "init"
    /\ mk = 1
    /\ startRet = "none"
    /\ readyLogs = 0
    /\ containerUp = FALSE
    /\ exiting = FALSE
    /\ ctxDone = FALSE
    /\ cancelCalls = 0
    /\ shutLogs = 0
    /\ shutCalls = 0
    /\ sigCount = 0
    /\ sigB = FALSE
    /\ sigClosed = FALSE
    /\ appWg = 0
    /\ srv = [s \in ServerSlots |-> NewServer]
    /\ stops = [s \in ServerSlots |-> 0]
    /\ wpc = [w \in Waiters |-> "idle"]
    /\ sgpc = "none"
    /\ closes = 0
    /\ completes = 0
    /\ stopped = [s \in ServerSlots |-> 0]
    /\ stopErrLogs = 0
    /\ runs = <<>>

\* App.Start returns
StartReturns(ret) ==
    /\ startRet' = ret
    /\ mpc' = "started"

\* App.Start, after the last runner: the loop that launches the servers, or
\* the return when there is none
AfterRunners ==
    IF nServers > 0
    THEN mpc' = "launch" /\ mk' = 1 /\ UNCHANGED startRet
    ELSE StartReturns("nil") /\ UNCHANGED mk

\* App.Start up to the end of the container refresh, which fails or not
AppStart ==
    /\ mpc = "init"
    /\ \E ok \in BOOLEAN :
          /\ containerUp' = ok
          /\ IF ~ok THEN StartReturns("refresh") /\ UNCHANGED mk
             ELSE IF nRunners > 0 THEN mpc' = "runners" /\ mk' = 1 /\ UNCHANGED startRet
             ELSE AfterRunners
    /\ UNCHANGED <<mode, nServers, nRunners, readyLogs, exiting, ctxDone, cancelCalls,
                   shutLogs, shutCalls, sigCount, sigB, sigClosed, appWg, srv, stops,
                   wpc, sgpc, closes, completes>>
    /\ UNCHANGED <<rvars, ovars, cvars, evars, pvars, gvars>>
    /\ UNCHANGED runs
    /\ UNCHANGED svars

\* the error runner i returns when it fails
RunnerError(i) == "runner error " \o ToString(i)

\* a slip in Start: the error of a runner is dropped
runnerFailed_Ignored(err) == FALSE

\* if err := r.Run(app.ctx); err != nil
runnerFailed(err) == err # "nil"

\* App.Start: runner mk runs and returns nil or an error
RunRunner ==
    /\ mpc = "runners"
    /\ \E err \in {"nil", RunnerError(mk)} :
          /\ runs' = Append(runs, [runner |-> mk, err |-> err])
          /\ IF runnerFailed(err) THEN StartReturns(err) /\ UNCHANGED mk
             ELSE IF mk < nRunners THEN mk' = mk + 1 /\ UNCHANGED <<mpc, startRet>>
             ELSE AfterRunners
    /\ UNCHANGED <<mode, nServers, nRunners, readyLogs, containerUp, exiting, ctxDone,
                   cancelCalls, shutLogs, shutCalls, sigCount, sigB, sigClosed, appWg,
                   srv, stops, wpc, sgpc, closes, completes>>
    /\ UNCHANGED <<rvars, ovars, cvars, evars, pvars, gvars>>
    /\ UNCHANGED svars

\* App.Start: sig.Add, app.wg.Add(1) and the goroutine of server mk
LaunchServer ==
    /\ mpc = "launch"
    /\ sigCount' = sigCount + 1
    /\ appWg' = appWg + 1
    /\ srv' = [srv EXCEPT ![mk].pc = "run"]
    /\ IF mk < nServers THEN mk' = mk + 1 /\ UNCHANGED mpc
       ELSE mpc' = "wait" /\ UNCHANGED mk
    /\ UNCHANGED <<mode, nServers, nRunners, startRet, readyLogs, containerUp, exiting,
                   ctxDone, cancelCalls, shutLogs, shutCalls, sigB, sigClosed, stops,
                   wpc, sgpc, closes, completes>>
    /\ UNCHANGED <<rvars, ovars, cvars, evars, pvars, gvars>>
    /\ UNCHANGED runs
    /\ UNCHANGED svars

\* App.Start: sig.Wait returns
StartWait ==
    /\ mpc = "wait"
    /\ sigCount = 0
    /\ mpc' = "check"
    /\ UNCHANGED <<mode, nServers, nRunners, mk, startRet, readyLogs, containerUp, exiting,
                   ctxDone, cancelCalls, shutLogs, shutCalls, sigCount, sigB, sigClosed,
                   appWg, srv, stops, wpc, sgpc, closes, completes>>
    /\ UNCHANGED <<rvars, ovars, cvars, evars, pvars, gvars>>
    /\ UNCHANGED runs
    /\ UNCHANGED svars

\* App.Start: the test of sig.Intercepted, then the error, or the log line
\* and sig.Close
StartCheck ==
    /\ mpc = "check"
    /\ IF Intercepted(sigB)
       THEN /\ StartReturns("intercepted")
            /\ UNCHANGED <<readyLogs, sigClosed>>
       ELSE /\ readyLogs' = readyLogs + 1
            /\ sigClosed' = TRUE
            /\ StartReturns("nil")
    /\ UNCHANGED <<mode, nServers, nRunners, mk, containerUp, exiting, ctxDone,
                   cancelCalls, shutLogs, shutCalls, sigCount, sigB, appWg, srv, stops,
                   wpc, sgpc, closes, completes>>
    /\ UNCHANGED <<rvars, ovars, cvars, evars, pvars, gvars>>
    /\ UNCHANGED runs
    /\ UNCHANGED svars

\* AppStarter.Run after Start returned: the error, or Stop when no server
\* runs, or the signal goroutine and WaitForShutdown
RunAfterStart ==
    /\ mode = "Run"
    /\ mpc = "started"
    /\ IF startRet # "nil"
       THEN mpc' = "exited" /\ UNCHANGED <<wpc, sgpc>>
       ELSE IF nServers = 0
       THEN /\ mpc' = "stopping"
            /\ wpc' = [wpc EXCEPT ![0] = "cas"]
            /\ UNCHANGED sgpc
       ELSE /\ mpc' = "stopping"
            /\ wpc' = [wpc EXCEPT ![0] = "ctxwait"]
            /\ sgpc' = "armed"
    /\ UNCHANGED <<mode, nServers, nRunners, mk, startRet, readyLogs, containerUp, exiting,
                   ctxDone, cancelCalls, shutLogs, shutCalls, sigCount, sigB, sigClosed, appWg, srv,
                   stops, closes, completes>>
    /\ UNCHANGED <<rvars, ovars, cvars, evars, pvars, gvars>>
    /\ UNCHANGED runs
    /\ UNCHANGED svars

\* AppStarter.Stop is called, by the defer of RunTest or by the application,
\* after AppStarter.Start returned nil
StopCall(w) ==
    /\ mode = "Start"
    /\ mpc = "started" /\ startRet = "nil"
    /\ w # 0 /\ wpc[w] = "idle"
    /\ wpc' = [wpc EXCEPT ![w] = "cas"]
    /\ UNCHANGED <<mode, nServers, nRunners, mpc, mk, startRet, readyLogs, containerUp,
                   exiting, ctxDone, cancelCalls, shutLogs, shutCalls, sigCount, sigB, sigClosed,
                   appWg, srv, stops, sgpc, closes, completes>>
    /\ UNCHANGED <<rvars, ovars, cvars, evars, pvars, gvars>>
    /\ UNCHANGED runs
    /\ UNCHANGED svars

\* ShutDown called by AppStarter.Stop: the compare-and-swap
StopShutDown(w) ==
    /\ wpc[w] = "cas"
    /\ shutCalls' = shutCalls + 1
    /\ IF casExiting(exiting)
       THEN exiting' = TRUE /\ wpc' = [wpc EXCEPT ![w] = "cancel"]
       ELSE wpc' = [wpc EXCEPT ![w] = "ctxwait"] /\ UNCHANGED exiting
    /\ UNCHANGED <<mode, nServers, nRunners, mpc, mk, startRet, readyLogs, containerUp,
                   ctxDone, cancelCalls, shutLogs, sigCount, sigB, sigClosed,
                   appWg, srv, stops, sgpc, closes, completes>>
    /\ UNCHANGED <<rvars, ovars, cvars, evars, pvars, gvars>>
    /\ UNCHANGED runs
    /\ UNCHANGED svars

\* ShutDown called by AppStarter.Stop: the log line and app.cancel
StopCancel(w) ==
    /\ wpc[w] = "cancel"
    /\ shutLogs' = shutLogs + 1
    /\ cancelCalls' = cancelCalls + 1
    /\ ctxDone' = TRUE
    /\ wpc' = [wpc EXCEPT ![w] = "ctxwait"]
    /\ UNCHANGED <<mode, nServers, nRunners, mpc, mk, startRet, readyLogs, containerUp,
                   exiting, shutCalls, sigCount, sigB, sigClosed, appWg, srv, stops,
                   sgpc, closes, completes>>
    /\ UNCHANGED <<rvars, ovars, cvars, evars, pvars, gvars>>
    /\ UNCHANGED runs
    /\ UNCHANGED svars

\* WaitForShutdown: the root context is done and a goroutine that calls
\* svr.Stop is started for every server
WaitCtxDone(w) ==
    /\ wpc[w] = "ctxwait"
    /\ ctxDone
    /\ stops' = [s \in ServerSlots |->
                    IF s \in Servers THEN stops[s] + 1 ELSE stops[s]]
    /\ wpc' = [wpc EXCEPT ![w] = "wgwait"]
    /\ UNCHANGED <<mode, nServers, nRunners, mpc, mk, startRet, readyLogs, containerUp,
                   exiting, ctxDone, cancelCalls, shutLogs, shutCalls, sigCount, sigB,
                   sigClosed, appWg, srv, sgpc, closes, completes>>
    /\ UNCHANGED <<rvars, ovars, cvars, evars, pvars, gvars>>
    /\ UNCHANGED runs
    /\ UNCHANGED svars

\* a goroutine of WaitForShutdown: the svr.Stop of server s returns nil or
\* an error, which is logged
StopReturn(s, failed) ==
    /\ stopped[s] < stops[s]
    /\ stopped' = [stopped EXCEPT ![s] = @ + 1]
    /\ stopErrLogs' = IF failed THEN stopErrLogs + 1 ELSE stopErrLogs
    /\ UNCHANGED <<mode, nServers, nRunners, mpc, mk, startRet, readyLogs, containerUp,
                   exiting, ctxDone, cancelCalls, shutLogs, shutCalls, sigCount, sigB,
                   sigClosed, appWg, srv, stops, wpc, sgpc, closes, completes>>
    /\ UNCHANGED <<rvars, ovars, cvars, evars, pvars, gvars>>
    /\ UNCHANGED runs

\* a slip in WaitForShutdown: the container is closed without app.wg.Wait
WaitDone_NoWait(w) ==
    /\ wpc[w] = "wgwait"
    /\ closes' = closes + 1
    /\ completes' = completes + 1
    /\ wpc' = [wpc EXCEPT ![w] = "done"]
    /\ mpc' = IF w = 0 THEN "exited" ELSE mpc
    /\ UNCHANGED <<mode, nServers, nRunners, mk, startRet, readyLogs, containerUp, exiting,
                   ctxDone, cancelCalls, shutLogs, shutCalls, sigCount, sigB, sigClosed,
                   appWg, srv, stops, sgpc>>
    /\ UNCHANGED <<rvars, ovars, cvars, evars, pvars, gvars>>
    /\ UNCHANGED runs
    /\ UNCHANGED svars

\* WaitForShutdown: app.wg.Wait returns, the container is closed and
\* 'shutdown complete' is logged
WaitDone(w) ==
    /\ wpc[w] = "wgwait"
    /\ appWg = 0
    /\ closes' = closes + 1
    /\ completes' = completes + 1
    /\ wpc' = [wpc EXCEPT ![w] = "done"]
    /\ mpc' = IF w = 0 THEN "exited" ELSE mpc
    /\ UNCHANGED <<mode, nServers, nRunners, mk, startRet, readyLogs, containerUp, exiting,
                   ctxDone, cancelCalls, shutLogs, shutCalls, sigCount, sigB, sigClosed,
                   appWg, srv, stops, sgpc>>
    /\ UNCHANGED <<rvars, ovars, cvars, evars, pvars, gvars>>
    /\ UNCHANGED runs
    /\ UNCHANGED svars

\* what every step of a server goroutine leaves alone
ServerFrame ==
    /\ UNCHANGED <<mode, nServers, nRunners, mpc, mk, startRet, readyLogs, containerUp,
                   sigClosed, stops, wpc, sgpc, closes, completes>>
    /\ UNCHANGED <<rvars, ovars, cvars, evars, pvars, gvars>>
    /\ UNCHANGED runs
    /\ UNCHANGED svars

\* the goroutine of server s after its Run panicked with the negative
\* counter of the ready signal: the deferred recover function takes over
RunPanics(s) ==
    srv' = [srv EXCEPT ![s].out = "panic", ![s].rec = TRUE, ![s].pc = "store",
                       ![s].late = (startRet = "nil")]

\* ReadySignalImpl.TriggerAndWait called by the Run of server s: wg.Done,
\* then the channel is returned and Run waits for it
SrvTrigger(s) ==
    /\ srv[s].pc = "run"
    /\ sigCount' = sigCount - 1
    /\ IF wgNegative(sigCount - 1)
       THEN RunPanics(s)
       ELSE srv' = [srv EXCEPT ![s].ready = TRUE, ![s].pc = "waiting"]
    /\ UNCHANGED <<exiting, ctxDone, cancelCalls, shutLogs, shutCalls, sigB, appWg>>
    /\ ServerFrame

\* the channel of the ready signal is closed: the Run of server s goes on
SrvReleased(s) ==
    /\ srv[s].pc = "waiting"
    /\ sigClosed
    /\ srv' = [srv EXCEPT ![s].pc = "serving"]
    /\ UNCHANGED <<exiting, ctxDone, cancelCalls, shutLogs, shutCalls, sigCount, sigB, appWg>>
    /\ ServerFrame

\* the Run of server s ends: it returns nil, http.ErrServerClosed or another
\* error, or it panics.  A Run that waits for the channel ends only when the
\* root context is cancelled
SrvRunReturn(s, out) ==
    /\ \/ srv[s].pc \in {"run", "serving"}
       \/ srv[s].pc = "waiting" /\ ctxDone
    /\ srv' = [srv EXCEPT ![s].out = IF serverClosed(out) THEN "closed" ELSE out,
                          ![s].late = (~serverClosed(out) /\ startRet = "nil"),
                          ![s].rec = (out = "panic"),
                          ![s].pc = IF serverClosed(out) THEN "wgdone" ELSE "store"]
    /\ UNCHANGED <<exiting, ctxDone, cancelCalls, shutLogs, shutCalls, sigCount, sigB, appWg>>
    /\ ServerFrame

\* a slip in Intercept: wg.Done is reached without b.Store(true) before it
SrvInterceptStore_Skipped(s) ==
    /\ srv[s].pc = "store"
    /\ srv' = [srv EXCEPT ![s].pc = "sigdone"]
    /\ UNCHANGED <<exiting, ctxDone, cancelCalls, shutLogs, shutCalls, sigCount, sigB, appWg>>
    /\ ServerFrame

\* ReadySignalImpl.Intercept called by the goroutine of server s: b.Store(true)
SrvInterceptStore(s) ==
    /\ srv[s].pc = "store"
    /\ sigB' = TRUE
    /\ srv' = [srv EXCEPT ![s].pc = "sigdone"]
    /\ UNCHANGED <<exiting, ctxDone, cancelCalls, shutLogs, shutCalls, sigCount, appWg>>
    /\ ServerFrame

\* ReadySignalImpl.Intercept called by the goroutine of server s: wg.Done.
\* When it panics, the deferred recover function takes over, and a panic of
\* that function leaves the goroutine without the call of ShutDown
SrvInterceptDone(s) ==
    /\ srv[s].pc = "sigdone"
    /\ sigCount' = sigCount - 1
    /\ IF ~wgNegative(sigCount - 1)
       THEN srv' = [srv EXCEPT ![s].pc = "cas"]
       ELSE IF ~srv[s].rec
       THEN srv' = [srv EXCEPT ![s].rec = TRUE, ![s].pc = "store"]
       ELSE srv' = [srv EXCEPT ![s].pan = "negative WaitGroup counter", ![s].pc = "wgdone"]
    /\ UNCHANGED <<exiting, ctxDone, cancelCalls, shutLogs, shutCalls, sigB, appWg>>
    /\ ServerFrame

\* the panic the deferred recover function of server s raises again
Reraised(s) == IF srv[s].rec THEN "r" ELSE ""

\* a slip in ShutDown: app.cancel is called without the flag being set
SrvShutDown_CancelOnly(s) ==
    /\ srv[s].pc = "cas"
    /\ shutCalls' = shutCalls + 1
    /\ cancelCalls' = cancelCalls + 1
    /\ shutLogs' = shutLogs + 1
    /\ ctxDone' = TRUE
    /\ srv' = [srv EXCEPT ![s].pc = "wgdone", ![s].pan = Reraised(s)]
    /\ UNCHANGED <<exiting, sigCount, sigB, appWg>>
    /\ ServerFrame

\* App.ShutDown called by the goroutine of server s: the compare-and-swap
SrvShutDown(s) ==
    /\ srv[s].pc = "cas"
    /\ shutCalls' = shutCalls + 1
    /\ IF casExiting(exiting)
       THEN /\ exiting' = TRUE
            /\ srv' = [srv EXCEPT ![s].pc = "cancel"]
       ELSE /\ srv' = [srv EXCEPT ![s].pc = "wgdone", ![s].pan = Reraised(s)]
            /\ UNCHANGED exiting
    /\ UNCHANGED <<ctxDone, cancelCalls, shutLogs, sigCount, sigB, appWg>>
    /\ ServerFrame

\* App.ShutDown called by the goroutine of server s: the log line and app.cancel
SrvCancel(s) ==
    /\ srv[s].pc = "cancel"
    /\ shutLogs' = shutLogs + 1
    /\ cancelCalls' = cancelCalls + 1
    /\ ctxDone' = TRUE
    /\ srv' = [srv EXCEPT ![s].pc = "wgdone", ![s].pan = Reraised(s)]
    /\ UNCHANGED <<exiting, shutCalls, sigCount, sigB, appWg>>
    /\ ServerFrame

\* a slip in Start: app.wg.Done is called at the end of the goroutine
\* instead of being deferred, so a panic skips it
deferredDone_OnReturn(pan) == pan = ""

\* defer app.wg.Done(): it runs however the goroutine ends
deferredDone(pan) == TRUE

\* the deferred app.wg.Done of the goroutine of server s
SrvExit(s) ==
    /\ srv[s].pc = "wgdone"
    /\ appWg' = IF deferredDone(srv[s].pan) THEN appWg - 1 ELSE appWg
    /\ srv' = [srv EXCEPT ![s].pc = "done"]
    /\ UNCHANGED <<exiting, ctxDone, cancelCalls, shutLogs, shutCalls, sigCount, sigB>>
    /\ ServerFrame

\* what every step of the signal goroutine leaves alone
SignalFrame ==
    /\ UNCHANGED <<mode, nServers, nRunners, mpc, mk, startRet, readyLogs, containerUp,
                   sigCount, sigB, sigClosed, appWg, srv, stops, wpc, closes, completes>>
    /\ UNCHANGED <<rvars, ovars, cvars, evars, pvars, gvars>>
    /\ UNCHANGED runs
    /\ UNCHANGED svars

\* the goroutine of AppStarter.Run receives SIGINT or SIGTERM and calls
\* App.ShutDown: the compare-and-swap
SignalShutDown ==
    /\ sgpc = "armed"
    /\ shutCalls' = shutCalls + 1
    /\ IF casExiting(exiting)
       THEN exiting' = TRUE /\ sgpc' = "cancel"
       ELSE sgpc' = "done" /\ UNCHANGED exiting
    /\ UNCHANGED <<ctxDone, cancelCalls, shutLogs>>
    /\ SignalFrame

\* App.ShutDown called by the signal goroutine: the log line and app.cancel
SignalCancel ==
    /\ sgpc = "cancel"
    /\ shutLogs' = shutLogs + 1
    /\ cancelCalls' = cancelCalls + 1
    /\ ctxDone' = TRUE
    /\ sgpc' = "done"
    /\ UNCHANGED <<exiting, shutCalls>>
    /\ SignalFrame

AppNext ==
    \/ AppStart
    \/ RunRunner
    \/ LaunchServer
    \/ StartWait
    \/ StartCheck
    \/ RunAfterStart
    \/ \E w \in Waiters : StopCall(w)
    \/ \E w \in Waiters : StopShutDown(w)
    \/ \E w \in Waiters : StopCancel(w)
    \/ \E w \in Waiters : WaitCtxDone(w)
    \/ \E w \in Waiters : WaitDone(w)
    \/ \E s \in ServerSlots : SrvTrigger(s)
    \/ \E s \in ServerSlots : SrvReleased(s)
    \/ \E s \in ServerSlots, out \in RunOutcomes : SrvRunReturn(s, out)
    \/ \E s \in ServerSlots : SrvInterceptStore(s)
    \/ \E s \in ServerSlots : SrvInterceptDone(s)
    \/ \E s \in ServerSlots : SrvShutDown(s)
    \/ \E s \in ServerSlots : SrvCancel(s)
    \/ \E s \in ServerSlots : SrvExit(s)
    \/ SignalShutDown
    \/ SignalCancel

\* a container alone: the application around it does not run
(***************************************************************************)
(* gs.OnOnce.  One condition built by OnOnce and the calls of its Matches, *)
(* those made while its first call is still inside the wrapped conditions  *)
(* included (a wrapped bean condition resolves other beans, and these may  *)
(* carry the same condition).                                              *)
(***************************************************************************)
Outcomes == {"true", "false", "error"}

\* gs_cond.And(conditions...).Matches: the first outcome that is not true
RECURSIVE AndMatches(_)
AndMatches(outs) ==
    IF outs = <<>> THEN "true"
    ELSE IF Head(outs) # "true" THEN Head(outs)
    ELSE AndMatches(Tail(outs))

\* what the wrapped conditions return when evaluated now
WrappedNow == AndMatches([i \in 1 .. MaxWrapped |-> wrapped[i]])

\* the calls of the condition that have been entered
OnceCalls == Len(onceLog) + (IF oncePc = "evaluating" THEN 1 ELSE 0)

\* 'if done { return result, nil }'
onceSkips_Never(done) == FALSE
onceSkips(done) == done

\* OnOnce(conditions...): the variables of the closure
OnceInit(w) ==
    /\ onceDone = FALSE
    /\ onceResult = FALSE
    /\ wrapped = w
    /\ oncePc = "idle"
    /\ onceLog = <<>>
    /\ onceEvals = 0

\* the wrapped condition i comes to evaluate to v
WrappedChange(i, v) ==
    /\ wrapped[i] # v
    /\ wrapped' = [wrapped EXCEPT ![i] = v]
    /\ UNCHANGED <<onceDone, onceResult, oncePc, onceLog, onceEvals>>
    /\ UNCHANGED <<rvars, avars, cvars, evars, pvars, gvars>>

\* a call that finds done set: 'return result, nil'
OnceMemo ==
    /\ OnceCalls < MaxOnceCalls
    /\ onceSkips(onceDone)
    /\ onceLog' = Append(onceLog, [ok |-> onceResult, err |-> "nil",
                                   evaluated |-> FALSE, would |-> WrappedNow])
    /\ UNCHANGED <<onceDone, onceResult, wrapped, oncePc, onceEvals>>
    /\ UNCHANGED <<rvars, avars, cvars, evars, pvars, gvars>>

\* a call that finds done unset: 'done = true', and And(...).Matches is entered
OnceEvaluate ==
    /\ OnceCalls < MaxOnceCalls
    /\ ~onceSkips(onceDone)
    /\ oncePc = "idle"
    /\ onceDone' = TRUE
    /\ oncePc' = "evaluating"
    /\ onceEvals' = onceEvals + 1
    /\ UNCHANGED <<onceResult, wrapped, onceLog>>
    /\ UNCHANGED <<rvars, avars, cvars, evars, pvars, gvars>>

\* 'result, err = And(...).Matches(ctx); return result, err'
OnceReturn ==
    /\ oncePc = "evaluating"
    /\ onceResult' = (WrappedNow = "true")
    /\ onceLog' = Append(onceLog, [ok |-> WrappedNow = "true",
                                   err |-> IF WrappedNow = "error" THEN "error" ELSE "nil",
                                   evaluated |-> TRUE, would |-> WrappedNow])
    /\ oncePc' = "idle"
    /\ UNCHANGED <<onceDone, wrapped, onceEvals>>
    /\ UNCHANGED <<rvars, avars, cvars, evars, pvars, gvars>>

OnceNext ==
    \/ \E i \in 1 .. MaxWrapped, v \in Outcomes : WrappedChange(i, v)
    \/ OnceMemo
    \/ OnceEvaluate
    \/ OnceReturn

(***************************************************************************)
(* Packages conf, conf/provider, conf/reader and gs_conf: the layered      *)
(* configuration.  A Storage is a function from the keys it holds to their *)
(* values.  An error is the sequence of the messages of its chain, the     *)
(* outermost first, and nil is the empty sequence.  A string that the code *)
(* splits is written as the sequence of its pieces: the value of           *)
(* spring.profiles.active as the pieces between its commas, the value of   *)
(* spring.app.imports as the sources it lists, and a source as the pieces  *)
(* between its colons.                                                     *)
(***************************************************************************)
NoErr == <<>>

\* os.ErrNotExist
ErrNotExist == "file does not exist"

\* the *fs.PathError os.ReadFile returns for a file that does not exist
PathErrorNotExist == <<ErrNotExist>>

\* errutil.Explain and errutil.Stack: a new error that wraps err
Explain(err, msg) == <<msg>> \o err

\* os.IsNotExist: looks at the error itself, not at what it wraps
osIsNotExist_Unwrapping(err) == \E i \in DOMAIN err : err[i] = ErrNotExist
osIsNotExist(err) == err = PathErrorNotExist

\* errors.Is(err, os.ErrNotExist): walks the chain
errorsIsNotExist(err) == \E i \in DOMAIN err : err[i] = ErrNotExist

EmptyStorage == <<>>

Storage(k, v) == [x \in {k} |-> v]

\* a storage with the entries of s, and those of t for the other keys
With(s, t) ==
    [x \in DOMAIN s \cup DOMAIN t |-> IF x \in DOMAIN s THEN s[x] ELSE t[x]]

\* the path at which a key kOut held by a storage and a key kNew set on it
\* conflict, "" when they do not: one makes http.server a map and the other
\* a list.  For a map key set on a list the path is the one the test
\* 'merge error - sys' expects.
ConflictPath(kOut, kNew) ==
    IF kOut = "http.server.addr" /\ kNew = "http.server[0].addr" THEN "http.server"
    ELSE IF kOut = "http.server[0].addr" /\ kNew = "http.server.addr" THEN "http.server.addr"
    ELSE ""

Conflicts(out, s) ==
    {ConflictPath(k1, k2) : k1 \in DOMAIN out, k2 \in DOMAIN s} \ {""}

\* flatten.Storage.Merge, as MutableProperties.CopyTo calls it on out
StorageMerge(out, s) ==
    IF Conflicts(out, s) # {}
    THEN [err |-> <<"property conflict at path " \o (CHOOSE c \in Conflicts(out, s) : TRUE)>>,
          data |-> out]
    ELSE [err |-> NoErr, data |-> With(s, out)]

\* NewNamedPropertyCopier
NamedPropertyCopier(name, data) == [name |-> name, data |-> data]

\* a slip in merge: the error of CopyTo is dropped
mergeFails_Ignored(err) == FALSE

\* if err := s.CopyTo(out); err != nil
mergeFails(err) == err # NoErr

\* gs_conf.merge: nil and the error of the first source that fails to copy
RECURSIVE mergeLoop(_, _, _)
mergeLoop(sources, i, out) ==
    IF i > Len(sources) THEN [err |-> NoErr, p |-> out]
    ELSE LET r == StorageMerge(out, sources[i].data)
         IN  IF mergeFails(r.err)
             THEN [err |-> Explain(r.err, "merge error in source " \o sources[i].name),
                   p |-> EmptyStorage]
             ELSE mergeLoop(sources, i + 1, r.data)

merge(sources) == mergeLoop(sources, 1, EmptyStorage)

\* reader.readers, the extensions registered in init
ReaderExts == {".json", ".properties", ".yaml", ".yml", ".toml", ".tml"}

\* the file names of the model without their extension, and the extensions
Stems == {"./conf/app", "./conf/app-dev", "./conf/app-test", "./imp", "./imp2", "./missing", "./notes"}
Exts == ReaderExts \cup {".txt"}

\* filepath.Ext
Ext(file) ==
    IF \E st \in Stems, e \in Exts : file = st \o e
    THEN CHOOSE e \in Exts : \E st \in Stems : file = st \o e
    ELSE ""

\* a file of the file system: its parsed content, or bad when its reader fails
File(data) == [bad |-> FALSE, data |-> data]
BadFile == [bad |-> TRUE, data |-> EmptyStorage]

\* reader.ReadFile
ReadFile(fs, file) ==
    IF file \notin DOMAIN fs
    THEN [err |-> Explain(PathErrorNotExist, "read file " \o file \o " error"),
          data |-> EmptyStorage]
    ELSE IF Ext(file) \notin ReaderExts
    THEN [err |-> Explain(<<"unsupported file type " \o Ext(file)>>, "read file " \o file \o " error"),
          data |-> EmptyStorage]
    ELSE IF fs[file].bad
    THEN [err |-> Explain(<<"parse error">>, "read file " \o file \o " error"),
          data |-> EmptyStorage]
    ELSE [err |-> NoErr, data |-> fs[file].data]

\* provider.LoadFile; none is TRUE when it returns a nil Storage
LoadFile(fs, optional, source) ==
    LET r == ReadFile(fs, source)
    IN  IF r.err # NoErr
        THEN IF osIsNotExist(r.err) /\ optional
             THEN [err |-> NoErr, none |-> TRUE, data |-> EmptyStorage]
             ELSE [err |-> r.err, none |-> TRUE, data |-> EmptyStorage]
        ELSE [err |-> NoErr, none |-> FALSE, data |-> r.data]

\* provider.providers, the names registered
Providers == {"file"}

\* the pieces from the i-th on, with their colons
RECURSIVE JoinColon(_, _)
JoinColon(ss, i) ==
    IF i = Len(ss) THEN ss[i] ELSE ss[i] \o ":" \o JoinColon(ss, i + 1)

\* strings.SplitN(source, ":", 3)
SplitN3(source) ==
    IF Len(source) <= 3 THEN source
    ELSE <<source[1], source[2], JoinColon(source, 3)>>

\* provider.Load
ProviderLoad(fs, source) ==
    LET ss == SplitN3(source)
        optional == Len(ss) = 3 /\ ss[1] = "optional"
        provider == IF Len(ss) = 3 THEN ss[2] ELSE IF Len(ss) = 2 THEN ss[1] ELSE "file"
        path == ss[Len(ss)]
    IN  IF provider \notin Providers
        THEN [err |-> Explain(<<"unsupported provider type " \o provider>>,
                              "read config " \o path \o " error"),
              none |-> TRUE, data |-> EmptyStorage]
        ELSE LoadFile(fs, optional, path)

\* conf.Load: a MutableProperties around whatever Storage provider.Load gave
ConfLoad(fs, source) == ProviderLoad(fs, source)

\* Properties.Get with a default, for a key of the model
Get(p, key, def) == IF key \in DOMAIN p THEN p[key] ELSE def

\* the extensions of getAppFiles, in its order
Extensions == <<".properties", ".yaml", ".yml", ".toml", ".tml", ".json">>

\* strings.TrimSpace on a piece of the model
TrimSpace(s) == IF s = " " THEN "" ELSE s

\* loadFiles: the loop that trims the profiles and drops the empty ones
RECURSIVE activeProfiles(_)
activeProfiles(pieces) ==
    IF pieces = <<>> THEN <<>>
    ELSE (IF TrimSpace(Head(pieces)) # "" THEN <<TrimSpace(Head(pieces))>> ELSE <<>>)
             \o activeProfiles(Tail(pieces))

\* getAppFiles
RECURSIVE profileFiles(_, _)
profileFiles(dir, profiles) ==
    IF profiles = <<>> THEN <<>>
    ELSE [e \in 1 .. Len(Extensions) |-> dir \o "/app-" \o Head(profiles) \o Extensions[e]]
             \o profileFiles(dir, Tail(profiles))

getAppFiles(dir, profiles) ==
    [e \in 1 .. Len(Extensions) |-> dir \o "/app" \o Extensions[e]]
        \o profileFiles(dir, profiles)

\* loadFiles: the loop over the candidate files; each call of conf.Load is
\* put on the log ld
RECURSIVE loadLoop(_, _, _, _, _)
loadLoop(fs, files, i, ret, ld) ==
    IF i > Len(files) THEN [err |-> NoErr, files |-> ret, loads |-> ld]
    ELSE LET c == ConfLoad(fs, <<files[i]>>)
             ld2 == Append(ld, [source |-> <<files[i]>>, err |-> c.err, none |-> c.none])
         IN  IF c.err # NoErr
             THEN IF errorsIsNotExist(c.err)
                  THEN loadLoop(fs, files, i + 1, ret, ld2)
                  ELSE [err |-> c.err, files |-> <<>>, loads |-> ld2]
             ELSE loadLoop(fs, files, i + 1,
                           Append(ret, NamedPropertyCopier(files[i], c.data)), ld2)

loadFiles(fs, resolver, ld) ==
    LET dir == Get(resolver, "spring.app.config.dir", "./conf")
        profiles == activeProfiles(Get(resolver, "spring.profiles.active", <<>>))
    IN  loadLoop(fs, getAppFiles(dir, profiles), 1, <<>>, ld)

\* a slip in Refresh: the files and imports go behind the environment
Layers_MidLast(mid) ==
    <<NamedPropertyCopier("app", cin.app), NamedPropertyCopier("env", cin.env)>>
        \o mid \o <<NamedPropertyCopier("cmd", cin.cmd)>>

\* the layers Refresh merges when the sources in the middle are mid
Layers(mid) ==
    <<NamedPropertyCopier("app", cin.app)>> \o mid
        \o <<NamedPropertyCopier("env", cin.env), NamedPropertyCopier("cmd", cin.cmd)>>

\* the inputs of the AppConfig.Refresh calls of the model
AppChoices ==
    {With(sc, ctl) :
        sc \in {EmptyStorage, Storage("k", "app"),
                With(Storage("k", "app"), Storage("j", "app"))},
        ctl \in {EmptyStorage, Storage("http.server[0].addr", "app")}}

EnvChoices ==
    {With(sc, ctl) :
        sc \in {EmptyStorage, Storage("k", "env")},
        ctl \in {EmptyStorage,
                 Storage("spring.profiles.active", <<"dev">>),
                 Storage("spring.profiles.active", <<"test", " ", "dev", "">>),
                 Storage("http.server.addr", "env")}}

SourceChoices ==
    {<< <<"file", "./imp.yaml">> >>,
     << <<"./imp.yaml">>, <<"optional", "file", "./imp2.json">> >>,
     << <<"optional", "file", "./imp2.json">>, <<"file", "./imp.yaml">> >>,
     << <<"optional", "file", "./missing.yaml">>, <<"file", "./imp.yaml">> >>,
     << <<"file", "./missing.yaml">> >>,
     << <<"nope", "./imp.yaml">> >>,
     << <<"optional", "./imp.yaml">> >>,
     << <<"file", "./notes.txt">> >>}

CmdChoices ==
    {With(sc, ctl) :
        sc \in {EmptyStorage, Storage("k", "cmd")},
        ctl \in {EmptyStorage, Storage("http.server[0].addr", "cmd")}
                    \cup {Storage("spring.app.imports", l) : l \in SourceChoices}}

ImportFiles ==
    With(Storage("./imp.yaml", File(With(Storage("k", "imp"), Storage("j", "imp")))),
         With(Storage("./imp2.json", File(Storage("k", "imp2"))),
              Storage("./notes.txt", File(EmptyStorage))))

FsChoices ==
    {<<>>,
     With(ImportFiles,
          With(Storage("./conf/app.properties",
                       File(With(Storage("k", "app.properties"), Storage("j", "app.properties")))),
               Storage("./conf/app.yaml", File(Storage("k", "app.yaml"))))),
     With(ImportFiles,
          With(Storage("./conf/app.json", File(Storage("k", "app.json"))),
               With(Storage("./conf/app-dev.properties", File(Storage("k", "dev"))),
                    With(Storage("./conf/app-dev.yml", File(Storage("j", "dev.yml"))),
                         Storage("./conf/app-test.yaml",
                                 File(With(Storage("k", "test"), Storage("j", "test")))))))),
     With(ImportFiles, Storage("./conf/app.toml", BadFile)),
     With(Storage("./imp.yaml", File(Storage("http.server.addr", "imp"))),
          With(Storage("./conf/app.properties", File(Storage("http.server.addr", "file"))),
               Storage("./conf/app.yaml",
                       File(With(Storage("spring.profiles.active", <<"dev">>),
                                 Storage("spring.app.imports", << <<"file", "./imp.yaml">> >>))))))}

\* NewAppConfig, the properties the application set on it, and a call of
\* Refresh(useImport) in an environment
ConfInit ==
    /\ \E a \in AppChoices, e \in EnvChoices, c \in CmdChoices, f \in FsChoices, u \in BOOLEAN :
          cin = [app |-> a, env |-> e, cmd |-> c, fs |-> f, useImport |-> u]
    /\ cpc = "start"
    /\ cp = EmptyStorage
    /\ localFiles = <<>>
    /\ imports = [list |-> <<>>, i |-> 1]
    /\ csources = <<>>
    /\ loads = <<>>
    /\ cret = [done |-> FALSE, err |-> NoErr, p |-> EmptyStorage]

\* no AppConfig.Refresh call is made
NoConf ==
    /\ cin = [app |-> EmptyStorage, env |-> EmptyStorage, cmd |-> EmptyStorage,
              fs |-> <<>>, useImport |-> FALSE]
    /\ cpc = "none"
    /\ cp = EmptyStorage
    /\ localFiles = <<>>
    /\ imports = [list |-> <<>>, i |-> 1]
    /\ csources = <<>>
    /\ loads = <<>>
    /\ cret = [done |-> FALSE, err |-> NoErr, p |-> EmptyStorage]

\* Refresh returns p and err
ConfReturn(p, err) ==
    /\ cpc' = "returned"
    /\ cret' = [done |-> TRUE, err |-> err, p |-> p]

\* AppConfig.Refresh: the merge of app, env and cmd
RefreshMerge1 ==
    /\ cpc = "start"
    /\ LET r == merge(Layers(<<>>))
       IN  IF r.err # NoErr
           THEN ConfReturn(EmptyStorage, r.err) /\ UNCHANGED cp
           ELSE cpc' = "files" /\ cp' = r.p /\ UNCHANGED cret
    /\ UNCHANGED <<cin, localFiles, imports, csources, loads>>
    /\ UNCHANGED <<rvars, avars, ovars, evars, pvars, gvars>>

\* AppConfig.Refresh: loadFiles
RefreshLoadFiles ==
    /\ cpc = "files"
    /\ LET r == loadFiles(cin.fs, cp, loads)
       IN  /\ loads' = r.loads
           /\ IF r.err # NoErr
              THEN /\ ConfReturn(EmptyStorage, Explain(r.err, "refresh error in source local"))
                   /\ UNCHANGED localFiles
              ELSE /\ cpc' = "merge"
                   /\ localFiles' = r.files
                   /\ UNCHANGED cret
    /\ UNCHANGED <<cin, cp, imports, csources>>
    /\ UNCHANGED <<rvars, avars, ovars, evars, pvars, gvars>>

\* AppConfig.Refresh: the merge with the local files, and the binding of
\* spring.app.imports when useImport is set
RefreshMerge2 ==
    /\ cpc = "merge"
    /\ LET r == merge(Layers(localFiles))
       IN  IF r.err # NoErr
           THEN ConfReturn(EmptyStorage, r.err) /\ UNCHANGED <<cp, imports>>
           ELSE IF ~cin.useImport
           THEN ConfReturn(r.p, NoErr) /\ cp' = r.p /\ UNCHANGED imports
           ELSE /\ cpc' = "imports"
                /\ cp' = r.p
                /\ imports' = [list |-> Get(r.p, "spring.app.imports", <<>>), i |-> 1]
                /\ UNCHANGED cret
    /\ UNCHANGED <<cin, localFiles, csources, loads>>
    /\ UNCHANGED <<rvars, avars, ovars, evars, pvars, gvars>>

\* AppConfig.Refresh: one iteration of the loop over i.Imports
RefreshImport ==
    /\ cpc = "imports"
    /\ imports.i <= Len(imports.list)
    /\ LET source == imports.list[imports.i]
           c == ConfLoad(cin.fs, source)
       IN  /\ loads' = Append(loads, [source |-> source, err |-> c.err, none |-> c.none])
           /\ IF c.err # NoErr
              THEN /\ ConfReturn(EmptyStorage, c.err)
                   /\ UNCHANGED <<imports, csources>>
              ELSE /\ imports' = [imports EXCEPT !.i = @ + 1]
                   /\ csources' = Append(csources, NamedPropertyCopier(JoinColon(source, 1), c.data))
                   /\ UNCHANGED <<cpc, cret>>
    /\ UNCHANGED <<cin, cp, localFiles>>
    /\ UNCHANGED <<rvars, avars, ovars, evars, pvars, gvars>>

\* AppConfig.Refresh: the merge with the local files and the imports
RefreshMerge3 ==
    /\ cpc = "imports"
    /\ imports.i > Len(imports.list)
    /\ LET r == merge(Layers(localFiles \o csources))
       IN  /\ ConfReturn(r.p, r.err)
           /\ cp' = r.p
    /\ UNCHANGED <<cin, localFiles, imports, csources, loads>>
    /\ UNCHANGED <<rvars, avars, ovars, evars, pvars, gvars>>

ConfNext ==
    \/ RefreshMerge1
    \/ RefreshLoadFiles
    \/ RefreshMerge2
    \/ RefreshImport
    \/ RefreshMerge3

(***************************************************************************)
(* BeanDefinition.Export with any arguments.  J is an interface only T1    *)
(* implements, Reader one no bean type implements, int no interface.       *)
(***************************************************************************)
ExportTypes == {"I", "J", "Reader", "int"}

\* t.Kind() == reflect.Interface
IsInterface(t) == t \in {"I", "J", "Reader"}

\* d.GetType().Implements(t)
Implements(bt, t) == t = "I" \/ (t = "J" /\ bt = "T1")

\* BeanDefinition.Export: the loop over its arguments; panic is the message
\* of the panic that ends it, "" when it returns
RECURSIVE exportLoop(_, _, _)
exportLoop(d, ts, i) ==
    IF i > Len(ts) THEN [d |-> d, panic |-> ""]
    ELSE IF ~IsInterface(ts[i])
    THEN [d |-> d, panic |-> "only interface type can be exported"]
    ELSE IF ~Implements(d.type, ts[i])
    THEN [d |-> d, panic |-> "doesn't implement interface " \o ts[i]]
    ELSE exportLoop(Export(d, ts[i]), ts, i + 1)

ExportArgs ==
    {<<t>> : t \in ExportTypes} \cup {<<t, u>> : t \in ExportTypes, u \in ExportTypes}

\* a call d.Export(ts...)
ExportCall(ts) ==
    /\ Len(elog) < MaxExportCalls
    /\ LET r == exportLoop(ebean, ts, 1)
       IN  /\ ebean' = r.d
           /\ elog' = Append(elog, [args |-> ts, before |-> ebean.exports,
                                    after |-> r.d.exports, panic |-> r.panic])
    /\ UNCHANGED <<rvars, avars, ovars, cvars, pvars, gvars>>

ExportNext == \E ts \in ExportArgs : ExportCall(ts)

\* a bean definition as NewBean makes it
ExportInit(t) ==
    /\ ebean = NewBean(t)
    /\ elog = <<>>

NoExport == ExportInit("T1")

(***************************************************************************)
(* MutableProperties.Resolve.  A string is the sequence of its tokens: the *)
(* opening "${", the closing "}", the ":=" between a key and its default,  *)
(* and the text between them.                                              *)
(***************************************************************************)
\* the index of the "}" that closes the "${" at i - 1, 0 when there is none;
\* count is the number of "${" open at i
RECURSIVE closing(_, _, _)
closing(s, i, count) ==
    IF i > Len(s) THEN 0
    ELSE IF s[i] = "${" THEN closing(s, i + 1, count + 1)
    ELSE IF s[i] = "}" THEN (IF count = 1 THEN i ELSE closing(s, i + 1, count - 1))
    ELSE closing(s, i + 1, count)

\* the index of the first "${" of s from i on, 0 when there is none
RECURSIVE opening(_, _)
opening(s, i) ==
    IF i > Len(s) THEN 0
    ELSE IF s[i] = "${" THEN i
    ELSE opening(s, i + 1)

\* a slip in resolve: the default is taken whatever the properties hold
hasValue_Never(p, key) == FALSE

\* the properties hold a value for the key
hasValue(p, key) == key \in DOMAIN p

\* resolveString: replaces every "${key}" and "${key:=default}" of s, the
\* default being resolved in turn; fuel bounds the depth of the recursion by
\* the length of the string
RECURSIVE resolveString(_, _, _)
resolveString(p, s, fuel) ==
    LET start == opening(s, 1)
        end == IF start = 0 THEN 0 ELSE closing(s, start + 1, 1)
    IN  IF start = 0 THEN [err |-> NoErr, s |-> s]
        ELSE IF end = 0 \/ fuel = 0
        THEN [err |-> <<"resolve string error", "invalid syntax">>, s |-> <<>>]
        ELSE LET inner == SubSeq(s, start + 1, end - 1)
                 key == IF inner = <<>> \/ inner[1] = ":=" THEN "" ELSE inner[1]
                 at == IF key = "" THEN 1 ELSE 2
                 hasDef == Len(inner) >= at /\ inner[at] = ":="
                 def == SubSeq(inner, at + 1, Len(inner))
                 s1 == IF hasValue(p, key) THEN [err |-> NoErr, s |-> <<p[key]>>]
                       ELSE IF hasDef THEN resolveString(p, def, fuel - 1)
                       ELSE [err |-> <<"resolve string error",
                                       "property " \o key \o " not exist">>, s |-> <<>>]
                 s2 == resolveString(p, SubSeq(s, end + 1, Len(s)), fuel - 1)
             IN  IF s1.err # NoErr THEN s1
                 ELSE IF s2.err # NoErr THEN s2
                 ELSE [err |-> NoErr, s |-> SubSeq(s, 1, start - 1) \o s1.s \o s2.s]

\* MutableProperties.Resolve
Resolve(p, s) == resolveString(p, s, Len(s))

\* the strings resolved in the model
ResolveStrings ==
    {<<"${", "A", ":=", "${", "B", ":=", "C", "}", "}">>,
     <<"${", "K", "}">>,
     <<"${", "A", "}">>,
     <<"http://", "${", "B", ":=", "host", "}", ":", "${", "K", ":=", "80", "}">>,
     <<"${", "A", ":=", "${", "K", "}", "}">>,
     <<"plain">>,
     <<"${", "A">>}

\* the properties resolved against: any of A, B and K defined or not
PropsChoices ==
    {With(a, With(b, k)) :
        a \in {EmptyStorage, Storage("A", "y")},
        b \in {EmptyStorage, Storage("B", "x")},
        k \in {EmptyStorage, Storage("K", "z")}}

\* a call p.Resolve(s)
ResolveCall(s) ==
    /\ Len(slog) < MaxResolveCalls
    /\ LET r == Resolve(sprops, s)
       IN  slog' = Append(slog, [s |-> s, res |-> r.s, err |-> r.err])
    /\ UNCHANGED sprops
    /\ UNCHANGED <<rvars, avars, ovars, cvars, evars, gvars>>

PropsNext == \E s \in ResolveStrings : ResolveCall(s)

ResolveInit(p) ==
    /\ sprops = p
    /\ slog = <<>>

NoResolve == ResolveInit(EmptyStorage)

(***************************************************************************)
(* package gs: the process-wide registration functions                     *)
(***************************************************************************)
\* a slip in the registration functions: the started flag is not looked at
registrationClosed_Never(st) == FALSE

\* if started { panic(...) }
registrationClosed(st) == st

PanicProvide == "gs.Provide can only be called before the application is started"
PanicModule == "gs.Module can only be called before the application is started"
PanicGroup == "gs.Group can only be called before the application is started"

RegistrationPanics == {PanicProvide, PanicModule, PanicGroup}

\* the tags gs.Group is called with, as the key between "${" and "}"
GroupKeys == {"k"}

\* the module gs.Group registers: conditional on the key, it provides one named
\* bean per entry of the map bound to the key
GroupModule(key) == Module(<<key>>, <<Name(NewBean("T1"), "g")>>, FALSE)

\* gs.NewApp
NewApp ==
    /\ started' = TRUE
    /\ UNCHANGED gcall
    /\ UNCHANGED <<rvars, avars, ovars, cvars, evars, pvars>>

\* a registration function that finds the flag set panics before it registers
registrationPanic(msg) ==
    /\ registrationClosed(started)
    /\ gcall' = msg
    /\ UNCHANGED started
    /\ UNCHANGED <<rvars, avars, ovars, cvars, evars, pvars>>

\* gs.Provide
gsProvide(d) ==
    \/ registrationPanic(PanicProvide)
    \/ /\ ~registrationClosed(started)
       /\ InitProvide(d)
       /\ gcall' = "ok"
       /\ UNCHANGED started

\* gs.Module
gsModule(m) ==
    \/ registrationPanic(PanicModule)
    \/ /\ ~registrationClosed(started)
       /\ AddModule(m)
       /\ gcall' = "ok"
       /\ UNCHANGED started

\* gs.Group
gsGroup(key) ==
    \/ registrationPanic(PanicGroup)
    \/ /\ ~registrationClosed(started)
       /\ AddModule(GroupModule(key))
       /\ gcall' = "ok"
       /\ UNCHANGED started

RegistryNext ==
    \/ NewApp
    \/ \E d \in GlobalBeanChoices : gsProvide(d)
    \/ \E m \in ModuleChoices : gsModule(m)
    \/ \E key \in GroupKeys : gsGroup(key)

RegistryInit(st) ==
    /\ started = st
    /\ gcall = "none"

\* no OnOnce condition is in use
NoOnce == OnceInit([i \in 1 .. MaxWrapped |-> "true"])

Init == ResolvingInit /\ AppInit("Start", 0, 0) /\ NoOnce /\ NoConf /\ NoExport /\ NoResolve /\ RegistryInit(FALSE)

Next == ResolvingNext

Spec == Init /\ [][Next]_vars

\* Refresh is one call on one goroutine: once it is in resolveBeans it goes on
\* until resolveBeans returns
ResolveStep == ResolveNext \/ EvalCondition \/ ResolveDone

SpecRefreshRuns == Init /\ [][Next]_vars /\ WF_vars(ResolveStep)

\* an application: AppStarter.Run (mode Run), or AppStarter.Start followed by
\* calls of AppStarter.Stop (mode Start), with the servers and runners the
\* container wired
InitApp ==
    /\ ResolvingInit
    /\ \E m \in {"Run", "Start"}, ns \in 0 .. MaxServers, nr \in 0 .. MaxRunners :
          AppInit(m, ns, nr)
    /\ NoOnce
    /\ NoConf /\ NoExport /\ NoResolve /\ RegistryInit(TRUE)

SpecApp == InitApp /\ [][AppNext]_vars

\* the state App.Start leaves when it returns nil: every server called
\* TriggerAndWait and waits for the channel, which Start has closed
Started(m, ns) ==
    /\ mode = m
    /\ nServers = ns
    /\ nRunners = 0
    /\ mpc = "started"
    /\ mk = ns
    /\ startRet = "nil"
    /\ readyLogs = 1
    /\ containerUp = TRUE
    /\ exiting = FALSE
    /\ ctxDone = FALSE
    /\ cancelCalls = 0
    /\ shutLogs = 0
    /\ shutCalls = 0
    /\ sigCount = 0
    /\ sigB = FALSE
    /\ sigClosed = TRUE
    /\ appWg = ns
    /\ srv = [s \in ServerSlots |->
                IF s <= ns THEN [NewServer EXCEPT !.pc = "waiting", !.ready = TRUE]
                ELSE NewServer]
    /\ stops = [s \in ServerSlots |-> 0]
    /\ wpc = [w \in Waiters |-> "idle"]
    /\ sgpc = "none"
    /\ closes = 0
    /\ completes = 0
    /\ stopped = [s \in ServerSlots |-> 0]
    /\ stopErrLogs = 0
    /\ runs = <<>>

\* a started application with servers, from the return of App.Start on
InitShutdown ==
    /\ ResolvingInit
    /\ \E m \in {"Run", "Start"}, ns \in 1 .. MaxServers : Started(m, ns)
    /\ NoOnce
    /\ NoConf /\ NoExport /\ NoResolve /\ RegistryInit(TRUE)

\* what runs after App.Start returned nil, the goroutines that call the
\* Stop of the servers included
ShutdownNext ==
    \/ RunAfterStart
    \/ \E w \in Waiters : StopCall(w)
    \/ \E w \in Waiters : StopShutDown(w)
    \/ \E w \in Waiters : StopCancel(w)
    \/ \E w \in Waiters : WaitCtxDone(w)
    \/ \E s \in ServerSlots, failed \in BOOLEAN : StopReturn(s, failed)
    \/ \E w \in Waiters : WaitDone(w)
    \/ \E s \in ServerSlots : SrvReleased(s)
    \/ \E s \in ServerSlots, out \in RunOutcomes : SrvRunReturn(s, out)
    \/ \E s \in ServerSlots : SrvInterceptStore(s)
    \/ \E s \in ServerSlots : SrvInterceptDone(s)
    \/ \E s \in ServerSlots : SrvExit(s)
    \/ SignalShutDown
    \/ SignalCancel

\* the Run of server s returns once its Stop has been invoked
RunReturnsOnStop(s) ==
    /\ stops[s] > 0
    /\ \E out \in RunOutcomes : SrvRunReturn(s, out)

\* the scheduler runs every goroutine that can take a step; when a signal
\* arrives, when Stop is called and whether a Stop returns is not constrained
ShutdownFairness ==
    /\ WF_vars(RunAfterStart)
    /\ \A w \in Waiters :
          WF_vars(StopShutDown(w) \/ StopCancel(w) \/ WaitCtxDone(w) \/ WaitDone(w))
    /\ \A s \in ServerSlots :
          WF_vars(SrvReleased(s) \/ RunReturnsOnStop(s) \/ SrvInterceptStore(s)
                      \/ SrvInterceptDone(s) \/ SrvExit(s))
    /\ WF_vars(SignalCancel)

\* a container on which Refresh is called with one bean in the global
\* registry, one module registered and one bean provided on the container
InitOrder ==
    /\ state = RefreshDefault
    /\ \E g \in GlobalBeanChoices : globalBeans = <<g>>
    /\ \E m \in ModuleChoices : modules = <<m>>
    /\ \E d \in BeanChoices : beans = <<d>>
    /\ props = {}
    /\ pc = "idle"
    /\ idx = 0
    /\ stack = <<>>
    /\ rets = <<>>
    /\ provided = "ok"
    /\ AppInit("Start", 0, 0)
    /\ NoOnce
    /\ NoConf /\ NoExport /\ NoResolve /\ RegistryInit(FALSE)

\* Resolving.Refresh and the phases it goes through
OrderNext ==
    \/ \E p \in SUBSET PropKeys : Refresh(p)
    \/ ScanPhase
    \/ ResolveNext
    \/ EvalCondition
    \/ ResolveDone
    \/ DuplicatePhase

SpecOrder == InitOrder /\ [][OrderNext]_vars

\* beans whose type is an interface: NewBean of a constructor that returns
\* the interface I, as it is and after Export(I), which Export accepts
InterfaceBeanChoices ==
    {NewBean("I"), exportLoop(NewBean("I"), <<"I">>, 1).d}

\* the container of InitOrder, its own bean being any of BeanChoices or a
\* bean of an interface type
InitOwnType ==
    /\ state = RefreshDefault
    /\ \E g \in GlobalBeanChoices : globalBeans = <<g>>
    /\ \E m \in ModuleChoices : modules = <<m>>
    /\ \E d \in BeanChoices \cup InterfaceBeanChoices : beans = <<d>>
    /\ props = {}
    /\ pc = "idle"
    /\ idx = 0
    /\ stack = <<>>
    /\ rets = <<>>
    /\ provided = "ok"
    /\ AppInit("Start", 0, 0)
    /\ NoOnce
    /\ NoConf /\ NoExport /\ NoResolve /\ RegistryInit(FALSE)

SpecOwnType == InitOwnType /\ [][OrderNext]_vars

\* the definitions of the global registry as a Refresh leaves them: c.beans
\* begins with the slice gs_init.Beans returned, whose elements are pointers
RegistryAfterRefresh ==
    IF state = RefreshDefault THEN globalBeans
    ELSE SubSeq(beans, 1, Len(globalBeans))

\* gs_init.Beans as the next container sees it: outside test mode the
\* definitions of the registry themselves, with what the Refresh of an
\* earlier container wrote into them; in test mode clones, so that the
\* registry keeps the definitions as they were registered
gsInitBeans(testing, registered, shared) ==
    IF ~testing THEN shared ELSE registered

\* the beans provided on a second container
SecondBeanChoices == {<<>>, <<NewBean("T1")>>}

\* resolving.New, after the Refresh of an earlier container has returned:
\* the variables of the model go on as the fields of the new container
New(testing, bs) ==
    /\ pc = "idle" /\ state # RefreshDefault
    /\ globalBeans' = gsInitBeans(testing, globalBeans, RegistryAfterRefresh)
    /\ state' = RefreshDefault
    /\ beans' = bs
    /\ idx' = 0
    /\ stack' = <<>>
    /\ UNCHANGED <<modules, props, pc, rets, provided>>
    /\ UNCHANGED <<avars, ovars, cvars, evars, pvars, gvars>>

\* the beans of the global registry of a process with two containers
SharedBeanChoices ==
    GlobalBeanChoices \cup {WithConds(NewBean("T2"), <<OnProperty("k")>>)}

\* two containers refreshed one after the other outside test mode
InitContainers ==
    /\ state = RefreshDefault
    /\ \E g \in SharedBeanChoices : globalBeans = <<g>>
    /\ \E m \in ModuleChoices : modules = <<m>>
    /\ \E d \in BeanChoices : beans = <<d>>
    /\ props = {}
    /\ pc = "idle"
    /\ idx = 0
    /\ stack = <<>>
    /\ rets = <<>>
    /\ provided = "ok"
    /\ AppInit("Start", 0, 0)
    /\ NoOnce
    /\ NoConf /\ NoExport /\ NoResolve /\ RegistryInit(FALSE)

ContainersNext ==
    \/ OrderNext
    \/ \E bs \in SecondBeanChoices : New(FALSE, bs)

SpecContainers == InitContainers /\ [][ContainersNext]_vars

\* the modules of a Refresh that is followed through its phases: those of
\* ModuleChoices and modules that provide a configuration bean
PhaseModuleChoices ==
    ModuleChoices
        \cup {Module(<<>>, <<c>>, fails) : c \in ConfigurationChoices, fails \in BOOLEAN}

\* a container on which Refresh is called with one module registered and one
\* bean provided on the container
InitPhases ==
    /\ state = RefreshDefault
    /\ globalBeans = <<>>
    /\ \E m \in PhaseModuleChoices : modules = <<m>>
    /\ \E d \in BeanChoices : beans = <<d>>
    /\ props = {}
    /\ pc = "idle"
    /\ idx = 0
    /\ stack = <<>>
    /\ rets = <<>>
    /\ provided = "ok"
    /\ AppInit("Start", 0, 0)
    /\ NoOnce
    /\ NoConf /\ NoExport /\ NoResolve /\ RegistryInit(FALSE)

SpecPhases == InitPhases /\ [][OrderNext]_vars

\* the places of app.Servers when only App.Start is followed
GateSlots == 1 .. MaxGateServers

\* gs_app.NewApp with ns servers and no runner, on which AppStarter.Start is
\* called
GateInit(ns) ==
    /\ mode = "Start"
    /\ nServers = ns
    /\ nRunners = 0
    /\ mpc = "init"
    /\ mk = 1
    /\ startRet = "none"
    /\ readyLogs = 0
    /\ containerUp = FALSE
    /\ exiting = FALSE
    /\ ctxDone = FALSE
    /\ cancelCalls = 0
    /\ shutLogs = 0
    /\ shutCalls = 0
    /\ sigCount = 0
    /\ sigB = FALSE
    /\ sigClosed = FALSE
    /\ appWg = 0
    /\ srv = [s \in GateSlots |-> NewServer]
    /\ stops = [s \in GateSlots |-> 0]
    /\ wpc = [w \in Waiters |-> "idle"]
    /\ sgpc = "none"
    /\ closes = 0
    /\ completes = 0
    /\ stopped = [s \in GateSlots |-> 0]
    /\ stopErrLogs = 0
    /\ runs = <<>>

InitGate ==
    /\ ResolvingInit
    /\ \E ns \in 1 .. MaxGateServers : GateInit(ns)
    /\ NoOnce
    /\ NoConf /\ NoExport /\ NoResolve /\ RegistryInit(TRUE)

\* App.Start and the goroutines it launches, up to its return and beyond,
\* while nothing calls Stop
GateNext ==
    \/ AppStart
    \/ LaunchServer
    \/ StartWait
    \/ StartCheck
    \/ \E s \in GateSlots : SrvTrigger(s)
    \/ \E s \in GateSlots : SrvReleased(s)
    \/ \E s \in GateSlots, out \in RunOutcomes : SrvRunReturn(s, out)
    \/ \E s \in GateSlots : SrvInterceptStore(s)
    \/ \E s \in GateSlots : SrvInterceptDone(s)
    \/ \E s \in GateSlots : SrvShutDown(s)
    \/ \E s \in GateSlots : SrvCancel(s)
    \/ \E s \in GateSlots : SrvExit(s)

SpecGate == InitGate /\ [][GateNext]_vars

\* one condition built by OnOnce, over conditions that evaluate to anything
InitOnce ==
    /\ ResolvingInit
    /\ AppInit("Start", 0, 0)
    /\ \E w \in [1 .. MaxWrapped -> Outcomes] : OnceInit(w)
    /\ NoConf /\ NoExport /\ NoResolve /\ RegistryInit(FALSE)

SpecOnce == InitOnce /\ [][OnceNext]_vars

\* registrations through package gs, before and after NewApp
InitRegistry ==
    /\ ResolvingInit
    /\ AppInit("Start", 0, 0)
    /\ NoOnce
    /\ NoConf /\ NoExport /\ NoResolve /\ RegistryInit(FALSE)

SpecRegistry == InitRegistry /\ [][RegistryNext]_vars

\* calls of AppConfig.Refresh
InitConf ==
    /\ ResolvingInit
    /\ AppInit("Start", 0, 0)
    /\ NoOnce
    /\ ConfInit
    /\ NoExport /\ NoResolve /\ RegistryInit(FALSE)

SpecConf == InitConf /\ [][ConfNext]_vars

\* Export calls on a bean definition of either type
InitExport ==
    /\ ResolvingInit
    /\ AppInit("Start", 0, 0)
    /\ NoOnce
    /\ NoConf
    /\ \E t \in BeanTypes : ExportInit(t)
    /\ NoResolve /\ RegistryInit(FALSE)

SpecExport == InitExport /\ [][ExportNext]_vars

\* Resolve calls on properties that hold any of the keys
InitResolve ==
    /\ ResolvingInit
    /\ AppInit("Start", 0, 0)
    /\ NoOnce
    /\ NoConf /\ NoExport
    /\ \E p \in PropsChoices : ResolveInit(p)
    /\ RegistryInit(FALSE)

SpecResolve == InitResolve /\ [][PropsNext]_vars

SpecShutdown == InitShutdown /\ [][ShutdownNext]_vars /\ ShutdownFairness


(***************************************************************************)
(* The claims about the resolver.                                          *)
(***************************************************************************)
\* the first Refresh call has returned
Returned == pc = "idle" /\ rets # <<>>

\* the types a bean can be looked up under
IdentityTypes(b) == {b.type} \cup {b.exports[k] : k \in DOMAIN b.exports}

\* two beans with the same name that share an identity type
SharesIdentity(b1, b2) ==
    b1.name = b2.name /\ IdentityTypes(b1) \cap IdentityTypes(b2) # {}

ActivePairShares ==
    \E i, j \in DOMAIN beans :
        /\ i # j
        /\ beans[i].status # StatusDeleted
        /\ beans[j].status # StatusDeleted
        /\ SharesIdentity(beans[i], beans[j])

\* C1: while a Refresh runs, a bean whose status is Deleted keeps that status
\* in every later step of resolveBeans, resolveBean and Find.
C1_DeletedIsTerminal ==
    [][\A i \in DOMAIN beans :
          (pc # "idle" /\ beans[i].status = StatusDeleted)
              => beans'[i].status = StatusDeleted]_vars

\* C2: after Refresh returned nil every bean the container holds is Resolved
\* or Deleted.
C2_AllResolvedOrDeleted ==
    (Returned /\ rets[1] = "nil")
        => \A i \in DOMAIN beans :
               beans[i].status \in {StatusResolved, StatusDeleted}

C2_Witness ==
    /\ Returned /\ rets[1] = "nil"
    /\ \E i, j \in DOMAIN beans :
          /\ beans[i].status = StatusDeleted
          /\ beans[j].status = StatusResolved
          /\ Len(beans[j].conds) > 0

\* C3: when condition resolution succeeded and two distinct non-deleted beans
\* have the same name and share an identity type, Refresh returns the
\* duplicate error and the container is not Refreshed; a Refreshed container
\* holds no such pair.
C3_DuplicateFails ==
    /\ (Returned /\ rets[1] \notin {"module", "scan", "resolve"} /\ ActivePairShares)
           => (rets[1] = "dup" /\ state # Refreshed)
    /\ state = Refreshed => ~ActivePairShares

C3_Witness ==
    /\ Returned /\ rets[1] = "dup" /\ state = Refreshing
    /\ \E i, j \in DOMAIN beans :
          /\ i # j
          /\ beans[i].status = StatusResolved
          /\ beans[j].status = StatusResolved
          /\ beans[i].type # beans[j].type
          /\ SharesIdentity(beans[i], beans[j])

\* C4: once the first Refresh call has returned, whatever it returned, no
\* step changes the container state or the status of a bean, and every
\* further Refresh call returns the error "already refreshing or refreshed".
C4_RefreshOnce ==
    [][Returned =>
          /\ state' = state
          /\ \A i \in DOMAIN beans : beans'[i].status = beans[i].status
          /\ Len(rets') > Len(rets) => rets'[Len(rets')] = "already"]_vars

C4_Witness ==
    /\ pc = "idle" /\ Len(rets) = 2
    /\ rets[1] = "module" /\ rets[2] = "already"
    /\ state = RefreshPrepare

(***************************************************************************)
(* The application runtime.                                                *)
(***************************************************************************)
\* server s ended its Run with an error or a panic without having called
\* TriggerAndWait
FailedBeforeReady(s) ==
    srv[s].out \in {"error", "panic"} /\ ~srv[s].ready

\* the goroutine of server s is over
Gone(s) == srv[s].pc = "done"

\* some caller of ShutDown won the compare-and-swap and has not cancelled yet
InCancel ==
    \/ \E s \in Servers : srv[s].pc = "cancel"
    \/ \E w \in Waiters : wpc[w] = "cancel"
    \/ sgpc = "cancel"

\* C5: once Start has gone past the wait for the readiness counter and
\* returned, no server is left blocked on the channel of TriggerAndWait:
\* the channel is closed, also when the counter reached zero by Intercept.
C5_WaitingServersReleased ==
    startRet # "none" =>
        \A s \in Servers : srv[s].pc = "waiting" => sigClosed

C7_LaunchedServersStopped ==
    (mpc = "exited" /\ startRet = "intercepted"
        /\ \E f \in Servers : FailedBeforeReady(f)) =>
        \A s \in Servers : srv[s].ready => stops[s] > 0

\* C8: when the goroutine of a server whose Run returned an error or
\* panicked after Start had returned nil is over, ShutDown was initiated:
\* the exiting flag is true and the root context is cancelled.
C8_LateFailureShutsDown ==
    \A s \in Servers :
        (srv[s].late /\ srv[s].out \in {"error", "panic"} /\ Gone(s)) =>
            (exiting /\ ctxDone)

\* C9: whatever the number of ShutDown calls, one of them wins the
\* compare-and-swap: the root context is cancelled and 'shutting down' is
\* logged at most once, by the one winner, and exactly once as soon as a
\* call was made and no winner is still on its way to the cancel.
C9_ShutDownOnce ==
    /\ cancelCalls <= 1
    /\ shutLogs = cancelCalls
    /\ ctxDone <=> cancelCalls = 1
    /\ (shutCalls > 0 /\ ~InCancel) => (exiting /\ cancelCalls = 1 /\ shutLogs = 1)
    /\ shutCalls = 0 => (~exiting /\ cancelCalls = 0)

\* reached: two ShutDown calls were made, by server goroutines or by
\* callers of Stop, and the context was cancelled once
C9_Witness ==
    /\ shutCalls >= 2
    /\ ~InCancel
    /\ cancelCalls = 1
    /\ shutLogs = 1

\* C10: with two concurrent calls of AppStarter.Stop the shutdown sequence
\* runs once: the Stop of each server is invoked at most once, the container
\* is closed at most once and 'shutdown complete' is logged at most once.
C10_ShutdownSequenceOnce ==
    /\ \A s \in Servers : stops[s] <= 1
    /\ closes <= 1
    /\ completes <= 1

\* C11: the container is closed, and WaitForShutdown returns, only after a
\* Stop call of every server has returned.
C11_ClosedAfterStopsReturned ==
    closes > 0 => \A s \in Servers : stopped[s] > 0

\* C12: once Start returned nil and ShutDown was called, WaitForShutdown
\* returns in the end, with the container closed and 'shutdown complete'
\* logged, whatever the Stop calls return, provided the Run of every server
\* returns once its Stop was invoked; and a Stop that returns an error
\* changes nothing but the log.
C12_ShutdownCompletes ==
    /\ (startRet = "nil" /\ shutCalls > 0) ~> (closes > 0 /\ completes > 0)
    /\ [][stopErrLogs' # stopErrLogs =>
            UNCHANGED <<mpc, startRet, exiting, ctxDone, appWg, srv, stops, wpc,
                        sgpc, closes, completes>>]_vars

\* reached: the Stop of a server returned an error, which was logged, and
\* the shutdown is complete
C12_Witness ==
    /\ startRet = "nil"
    /\ shutCalls > 0
    /\ stopErrLogs > 0
    /\ closes > 0
    /\ completes > 0

\* what the runners run so far returned
RunnerErrs == [k \in 1 .. Len(runs) |-> runs[k].err]

\* C13: Start runs the runners one at a time in slice order; when a runner
\* returns an error it is the last one run, Start returns that error and no
\* Run of a server is invoked; a Run of a server is invoked only after
\* every runner returned nil.
C13_RunnersBeforeServers ==
    /\ Len(runs) <= nRunners
    /\ \A k \in 1 .. Len(runs) :
          /\ runs[k].runner = k
          /\ runs[k].err # "nil" =>
                /\ k = Len(runs)
                /\ startRet = runs[k].err
                /\ \A s \in Servers : srv[s].pc = "idle"
    /\ (\E s \in Servers : srv[s].pc # "idle") =>
          /\ Len(runs) = nRunners
          /\ \A k \in 1 .. Len(runs) : runs[k].err = "nil"

\* reached: with two runners and a server, the second runner returned an
\* error after the first returned nil, and Start returned that error
C13_Witness ==
    /\ nRunners = 2
    /\ nServers >= 1
    /\ RunnerErrs = <<"nil", RunnerError(2)>>
    /\ startRet = RunnerError(2)
    /\ mpc \in {"started", "exited"}

\* C14: within a Refresh a bean enters Resolving from Default only and no
\* bean goes back to Default, so each bean enters Resolving, and has its
\* conditions evaluated, at most once, whether resolveBean is reached from
\* the loop of resolveBeans or from Find.
C14_ResolvingEnteredOnce ==
    [][pc # "idle" =>
          \A i \in DOMAIN beans :
              /\ (beans[i].status # StatusResolving /\ beans'[i].status = StatusResolving)
                     => beans[i].status = StatusDefault
              /\ beans[i].status # StatusDefault => beans'[i].status # StatusDefault]_vars

\* the condition the call of resolveBean f is at
CondOf(f) == beans[f.b].conds[f.ci]

\* the call of resolveBean f is inside Find
InFind(f) == f.ci <= Len(beans[f.b].conds) /\ IsBeanCond(CondOf(f))

\* what the Find of the innermost call does next
FindNext == findScan(beans, CondOf(Head(stack)).sel, Head(stack).j, Head(stack).found)

\* the beans of the list found are Resolved and bean b is not among them
AllResolvedWithout(found, b) ==
    \A n \in 1 .. Len(found) :
        /\ beans[found[n]].status >= StatusResolved
        /\ found[n] # b

\* C15: the beans Find has collected, and the beans it returns, are
\* Resolved, never Resolving or Deleted, and the bean whose condition made
\* the lookup is not among them; and a Refresh fails in resolveBeans only by
\* the error of a condition, never because Find met a bean that is Resolving.
C15_FindSkipsResolving ==
    /\ [](\A k \in 1 .. Len(stack) :
             InFind(stack[k]) =>
                 /\ AllResolvedWithout(stack[k].found, stack[k].b)
                 /\ k = 1 => AllResolvedWithout(FindNext.found, stack[k].b))
    /\ [][(Len(rets') > Len(rets) /\ rets'[Len(rets')] = "resolve") =>
             (stack # <<>> /\ CondOf(Head(stack)).kind = "OnFunc"
                 /\ CondOf(Head(stack)).res = "error")]_vars

\* reached: Find returns a bean, having passed over the matching bean whose
\* own condition made the lookup and which is Resolving
C15_Witness ==
    /\ stack # <<>>
    /\ InFind(Head(stack))
    /\ isBeanMatched(CondOf(Head(stack)).sel.type, CondOf(Head(stack)).sel.name,
                     beans[Head(stack).b])
    /\ beans[Head(stack).b].status = StatusResolving
    /\ ~FindNext.call
    /\ FindNext.found # <<>>

\* the innermost call of resolveBean is at a condition
AtCondition ==
    pc = "resolve" /\ stack # <<>> /\ Head(stack).ci <= Len(beans[Head(stack).b].conds)

\* what the condition of the innermost call returns, "call" when its Find
\* has to resolve a bean first
MatchesNow ==
    LET c == CondOf(Head(stack))
    IN  CASE c.kind = "OnFunc" -> c.res
          [] c.kind = "OnProperty" -> IF c.key \in props THEN "true" ELSE "false"
          [] OTHER -> IF FindNext.call THEN "call"
                      ELSE IF BeanCondResult(c, FindNext.found) THEN "true" ELSE "false"

\* C16: when a condition returns an error, Refresh returns the error of
\* resolveBeans at once, without the duplicate check, and the container is
\* never Refreshed; when a condition returns false, its bean becomes
\* Deleted, the call of resolveBean returns without evaluating the bean's
\* remaining conditions, and Refresh does not return an error by it.
C16_ConditionErrorAndMismatch ==
    /\ [](\A k \in 1 .. Len(rets) :
             rets[k] = "resolve" =>
                 /\ state = Refreshing
                 /\ \A n \in 1 .. Len(rets) : rets[n] \notin {"nil", "dup"})
    /\ [][(AtCondition /\ stack' # stack) =>
             /\ MatchesNow = "error" =>
                   /\ rets' = Append(rets, "resolve")
                   /\ pc' = "idle"
                   /\ state' = state
             /\ MatchesNow = "false" =>
                   /\ beans'[Head(stack).b].status = StatusDeleted
                   /\ stack' = <<>> \/ Len(stack') = Len(stack) - 1
                   /\ Len(stack') < Len(stack)
                   /\ rets' = rets
                   /\ pc' = pc]_vars

\* reached: a Refresh returned the error of a condition after a bean with
\* several conditions was Deleted by the first of them
C16_Witness ==
    /\ pc = "idle"
    /\ rets # <<>> /\ rets[1] = "resolve"
    /\ \E i \in DOMAIN beans :
          /\ Len(beans[i].conds) >= 2
          /\ beans[i].status = StatusDeleted

\* method m of configuration bean p matches an include pattern, 'New.*'
\* when p names none, and no exclude pattern
Included(p, m) ==
    LET inc == IF p.cfg.includes = <<>> THEN <<"New.*">> ELSE p.cfg.includes
    IN  /\ \E i \in DOMAIN inc : MatchString(inc[i], m)
        /\ ~\E i \in DOMAIN p.cfg.excludes : MatchString(p.cfg.excludes[i], m)

\* bean d is the bean scanConfiguration makes of method m of bean p
DerivedFrom(d, p, m) ==
    /\ d.name = p.name \o "_" \o m
    /\ d.type = MethodOut(p.type, m)
    /\ Contains(d.conds, OnBeanID(BeanID(p.type, p.name)))

\* the beans at i and j are configuration beans with the same BeanID
SameConfiguration(i, j) ==
    /\ beans[j].cfg.on
    /\ beans[j].type = beans[i].type
    /\ beans[j].name = beans[i].name

\* the scan of the configuration beans is over and found no bad pattern
Scanned == pc \in {"resolve", "dup"} \/ (Returned /\ rets[1] \in {"nil", "dup", "resolve"})

\* the derived beans of the claim C17: once the configuration beans are
\* scanned, a method of a configuration bean has a derived bean, named
\* '<name of the bean>_<method>' and with a condition on the BeanID of the
\* bean, when it matches an include and no exclude pattern.
DerivedBeansMade ==
    Scanned =>
        \A i \in DOMAIN beans :
            beans[i].cfg.on =>
                \A k \in DOMAIN Methods(beans[i].type) :
                    LET m == Methods(beans[i].type)[k]
                    IN  Included(beans[i], m)
                            => \E d \in DOMAIN beans : DerivedFrom(beans[d], beans[i], m)

\* C17: after a successful Refresh, when a configuration bean is Deleted,
\* being the one configuration bean of its BeanID, every bean derived from
\* it is Deleted too.
C17_DerivedDeletedWithParent ==
    (Returned /\ rets[1] = "nil") =>
        \A i \in DOMAIN beans :
            (/\ beans[i].cfg.on
             /\ beans[i].status = StatusDeleted
             /\ \A j \in DOMAIN beans : SameConfiguration(i, j) => j = i) =>
                \A d \in DOMAIN beans, k \in DOMAIN Methods(beans[i].type) :
                    DerivedFrom(beans[d], beans[i], Methods(beans[i].type)[k])
                        => beans[d].status = StatusDeleted

\* bs is as with the beans of as appended, each with status Default
AppendsDefault(as, bs) ==
    /\ Len(bs) >= Len(as)
    /\ SubSeq(bs, 1, Len(as)) = as
    /\ \A i \in Len(as) + 1 .. Len(bs) : bs[i].status = StatusDefault

\* C18: while the state is Refreshing or Refreshed a Provide call panics
\* and the beans stay as they are; a Provide call before the Refresh appends
\* one bean with status Default, and so does each Provide call a module
\* function makes in the module phase of the Refresh.
C18_ProvideRejectedOnceRefreshing ==
    [][/\ (pc = "idle" /\ state \in {Refreshing, Refreshed}) =>
              /\ beans' = beans
              /\ provided' \in {provided, "panic"}
       /\ provided' = "panic" => state \in {Refreshing, Refreshed}
       /\ (pc = "idle" /\ pc' = "idle" /\ state' = state /\ beans' # beans) =>
              /\ state \in {RefreshDefault, RefreshPrepare}
              /\ provided' = "ok"
              /\ Len(beans') = Len(beans) + 1
              /\ AppendsDefault(beans, beans')
       /\ (state = RefreshDefault /\ state' # RefreshDefault) =>
              AppendsDefault(globalBeans \o beans, beans')]_vars

\* reached: a container that accepted beans is Refreshed and a Provide call
\* on it panicked
C18_Witness ==
    /\ state = Refreshed
    /\ provided = "panic"
    /\ Len(beans) >= 2

\* the call of the OnOnce condition that evaluated the wrapped conditions
\* returned as entry j of the log
FirstEvaluation(j) == j \in 1 .. Len(onceLog) /\ onceLog[j].evaluated

Registration(b) == [b EXCEPT !.status = StatusDefault]

\* the beans the functions of the modules whose conditions match props
\* provide, in the order of the modules, from module i on
RECURSIVE ModuleBeans(_)
ModuleBeans(i) ==
    IF i > Len(modules) THEN <<>>
    ELSE (IF \A k \in DOMAIN modules[i].keys : modules[i].keys[k] \in props
          THEN modules[i].provides ELSE <<>>) \o ModuleBeans(i + 1)

\* the methods of the configuration bean at i that match an include and no
\* exclude pattern, as pairs <<i, method>> in the order of the methods, from
\* method k on
RECURSIVE MethodPairs(_, _)
MethodPairs(i, k) ==
    LET ms == Methods(beans[i].type)
    IN  IF k > Len(ms) THEN <<>>
        ELSE (IF Included(beans[i], ms[k]) THEN << <<i, ms[k]>> >> ELSE <<>>)
                 \o MethodPairs(i, k + 1)

\* these pairs for the configuration beans among the first n beans, in the
\* order of the beans, from bean i on
RECURSIVE ParentPairs(_, _)
ParentPairs(i, n) ==
    IF i > n THEN <<>>
    ELSE (IF beans[i].cfg.on THEN MethodPairs(i, 1) ELSE <<>>) \o ParentPairs(i + 1, n)

\* the beans not Deleted, by their places
Live == {i \in DOMAIN beans : beans[i].status # StatusDeleted}

\* the first n beans are the beans of the global registry, then np beans
\* provided on the container, then the beans of the modules, and the beans
\* behind them are the beans derived from the configuration beans among the
\* first n, in the order of these and then of their methods
OrderedAt(n, np) ==
    LET G == globalBeans
        M == ModuleBeans(1)
        E == ParentPairs(1, n)
    IN  /\ n = Len(G) + np + Len(M)
        /\ \A i \in 1 .. Len(G) : Registration(beans[i]) = G[i]
        /\ \A i \in 1 .. Len(M) : Registration(beans[Len(G) + np + i]) = M[i]
        /\ \A i \in Len(G) + 1 .. Len(G) + np :
              /\ Registration(beans[i]) \in BeanChoices
        /\ Len(beans) = n + Len(E)
        /\ \A j \in 1 .. Len(E) : DerivedFrom(beans[n + j], beans[E[j][1]], E[j][2])

\* Beans() is the beans not Deleted, in the order they have in c.beans
BeansAreLive ==
    /\ Len(Beans) = Cardinality(Live)
    /\ \A j \in 1 .. Len(Beans) :
          \E i \in Live : /\ Cardinality({m \in Live : m <= i}) = j
                           /\ Beans[j] = beans[i]

ConfOk == cret.done /\ cret.err = NoErr

\* the value the last of the storages ls that holds key gives it, none being
\* what stands for no value
RECURSIVE LastValue(_, _, _)
LastValue(ls, key, none) ==
    IF ls = <<>> THEN none
    ELSE IF key \in DOMAIN ls[Len(ls)] THEN ls[Len(ls)][key]
    ELSE LastValue(SubSeq(ls, 1, Len(ls) - 1), key, none)

\* the active profiles in the order they are listed: the pieces, other than
\* blank ones, of spring.profiles.active as app, env and cmd give it
ListedProfiles ==
    LET v == LastValue(<<cin.app, cin.env, cin.cmd>>, "spring.profiles.active", <<>>)
    IN  SelectSeq(v, LAMBDA s : s \notin {"", " "})

\* the files of one group that exist, in the order of the extensions, from
\* extension e on; stem is "app" or "app-<profile>"
RECURSIVE GroupFiles(_, _)
GroupFiles(stem, e) ==
    IF e > Len(Extensions) THEN <<>>
    ELSE (IF ("./conf/" \o stem \o Extensions[e]) \in DOMAIN cin.fs
          THEN <<cin.fs["./conf/" \o stem \o Extensions[e]].data>> ELSE <<>>)
             \o GroupFiles(stem, e + 1)

\* the groups of the profiles ps, in their order
RECURSIVE ProfileGroups(_)
ProfileGroups(ps) ==
    IF ps = <<>> THEN <<>>
    ELSE GroupFiles("app-" \o Head(ps), 1) \o ProfileGroups(Tail(ps))

\* the layers in the order of the claim C21
LayersInOrder ==
    <<cin.app>> \o GroupFiles("app", 1) \o ProfileGroups(ListedProfiles)
        \o (IF cin.useImport THEN [i \in DOMAIN csources |-> csources[i].data] ELSE <<>>)
        \o <<cin.env, cin.cmd>>

ScalarKeys == {"k", "j", "http.server.addr", "http.server[0].addr"}

\* C21: when AppConfig.Refresh succeeds, the properties it returns give every
\* scalar key the value of the last layer that defines it, the layers taken in
\* the order app-level properties, base files, one group of files per active
\* profile in listed order, imported sources in list order when useImport is
\* set, environment, command line; and the imported sources are those the
\* list names, in its order.
C21_LayersMergedInOrder ==
    ConfOk =>
        /\ \A key \in ScalarKeys :
              /\ key \in DOMAIN cret.p <=> \E i \in DOMAIN LayersInOrder : key \in DOMAIN LayersInOrder[i]
              /\ key \in DOMAIN cret.p => cret.p[key] = LastValue(LayersInOrder, key, "")
        /\ cin.useImport =>
              /\ Len(csources) = Len(imports.list)
              /\ \A i \in DOMAIN csources :
                    csources[i].name = JoinColon(imports.list[i], 1)
        /\ ~cin.useImport => csources = <<>>

\* reached: Refresh succeeded with imports on, with a base file, files of two
\* profiles and two imported sources; k is defined at the app level, in
\* files, in both imports, in the environment and on the command line, and j
\* at the app level, in files and last in an import
C21_Witness ==
    /\ ConfOk
    /\ cin.useImport
    /\ Len(ListedProfiles) = 2
    /\ Len(localFiles) >= 4
    /\ Len(csources) = 2
    /\ \A l \in {cin.app, cin.env, cin.cmd} : "k" \in DOMAIN l
    /\ "j" \in DOMAIN cin.app
    /\ cret.p["k"] = "cmd"
    /\ cret.p["j"] = "imp"

\* the source of a logged call of provider.Load has the form
\* '[optional:]provider:path'
WellFormed(source) ==
    \/ Len(source) = 2 /\ source[1] # "optional"
    \/ Len(source) = 3 /\ source[1] = "optional"

HasOptional(source) == Len(source) = 3
ProviderOf(source) == source[Len(source) - 1]
PathOf(source) == source[Len(source)]

\* the file a source names exists
Exists(source) == PathOf(source) \in DOMAIN cin.fs

\* the two error cases of the claim C22: a provider name that is not
\* registered, and a file that does not exist named without 'optional:'
LoadErrors ==
    \A n \in DOMAIN loads :
        LET l == loads[n]
        IN  WellFormed(l.source) =>
                /\ ProviderOf(l.source) \notin Providers => l.err # NoErr
                /\ (ProviderOf(l.source) \in Providers /\ ~Exists(l.source) /\ ~HasOptional(l.source))
                      => l.err # NoErr

\* C22: provider.Load parses its source as '[optional:]provider:path'; a
\* provider name that is not registered yields an error, with the prefix
\* 'optional:' a file that does not exist yields a nil result and no error,
\* and without the prefix a file that does not exist yields an error.
C22_LoadOptionalAndRequired ==
    \A n \in DOMAIN loads :
        LET l == loads[n]
        IN  WellFormed(l.source) =>
                /\ ProviderOf(l.source) \notin Providers => l.err # NoErr
                /\ (ProviderOf(l.source) \in Providers /\ ~Exists(l.source)) =>
                      IF HasOptional(l.source)
                      THEN l.none /\ l.err = NoErr
                      ELSE l.err # NoErr

\* the sources of the merge Refresh made last, once every import is loaded
MergedSources == [i \in DOMAIN Layers(localFiles \o csources) |-> Layers(localFiles \o csources)[i].data]

\* a source that defines http.server.addr comes before the first one that
\* defines http.server[0].addr
ScalarThenList(ls) ==
    \E i, j \in DOMAIN ls :
        /\ i < j
        /\ "http.server.addr" \in DOMAIN ls[i]
        /\ "http.server[0].addr" \in DOMAIN ls[j]
        /\ \A m \in 1 .. j - 1 : "http.server[0].addr" \notin DOMAIN ls[m]

\* one source defines http.server.addr and another http.server[0].addr
BothKinds(ls) ==
    \E i, j \in DOMAIN ls :
        "http.server.addr" \in DOMAIN ls[i] /\ "http.server[0].addr" \in DOMAIN ls[j]

C24_ResolveNestedDefault ==
    \A n \in DOMAIN slog :
        LET c == slog[n]
        IN  /\ c.s = <<"${", "A", ":=", "${", "B", ":=", "C", "}", "}">> =>
                  /\ c.err = NoErr
                  /\ c.res = IF "A" \in DOMAIN sprops THEN <<sprops["A"]>>
                             ELSE IF "B" \in DOMAIN sprops THEN <<sprops["B"]>>
                             ELSE <<"C">>
            /\ (c.s = <<"${", "K", "}">> /\ "K" \notin DOMAIN sprops) => c.err # NoErr

\* reached: with only B defined, '${A:=${B:=C}}' resolved to the value of B
\* and '${K}' to an error
C24_Witness ==
    /\ DOMAIN sprops = {"B"}
    /\ Len(slog) = 2
    /\ slog[1].s = <<"${", "A", ":=", "${", "B", ":=", "C", "}", "}">>
    /\ slog[1].res = <<"x">>
    /\ slog[2].s = <<"${", "K", "}">>
    /\ slog[2].err # NoErr

(***************************************************************************)
(* Bean definitions.                                                       *)
(***************************************************************************)
\* the argument t of an Export call on a bean of type bt makes the call panic
Unexportable(bt, t) == ~IsInterface(t) \/ ~Implements(bt, t)

\* C23: Export is idempotent: a call whose types are all in the export list
\* already leaves the list as it is, and the list never holds a type twice;
\* a call panics exactly when one of its types is no interface or is an
\* interface the type of the bean does not implement.
C23_ExportIdempotent ==
    /\ \A i, j \in DOMAIN ebean.exports : ebean.exports[i] = ebean.exports[j] => i = j
    /\ \A n \in DOMAIN elog :
          LET c == elog[n]
          IN  /\ (\A i \in DOMAIN c.args : Contains(c.before, c.args[i])) => c.after = c.before
              /\ c.panic # "" <=> \E i \in DOMAIN c.args : Unexportable(ebean.type, c.args[i])
              /\ \A i \in DOMAIN c.after : ~Unexportable(ebean.type, c.after[i])

\* reached: a type was exported, a second call exported it again and left the
\* list as it was, and the bean has two exports
C23_Witness ==
    /\ Len(elog) = 2
    /\ elog[1].args = <<"J", "I">> /\ elog[1].panic = ""
    /\ elog[2].args = <<"I", "I">> /\ elog[2].panic = ""
    /\ elog[2].after = elog[2].before
    /\ ebean.exports = <<"J", "I">>

(***************************************************************************)
(* The process-wide registry.                                              *)
(***************************************************************************)
\* a step that appends exactly one bean or one module to the global registry
RegistryAppended ==
    \/ /\ modules' = modules
       /\ \E d \in GlobalBeanChoices : globalBeans' = Append(globalBeans, d)
    \/ /\ globalBeans' = globalBeans
       /\ \E m \in ModuleChoices \cup {GroupModule(k) : k \in GroupKeys} :
             modules' = Append(modules, m)

\* C26: once started is set it stays set, and from then on gs.Provide,
\* gs.Module and gs.Group panic and leave the global registry as it was; while
\* it is not set, every call of them returns and appends one entry to the
\* global registry, and no call panics.
C26_RegistrationClosedAfterStart ==
    [][ /\ started =>
             /\ started'
             /\ globalBeans' = globalBeans /\ modules' = modules
             /\ gcall' # gcall => gcall' \in RegistrationPanics
        /\ ~started =>
             \/ started' /\ globalBeans' = globalBeans /\ modules' = modules /\ gcall' = gcall
             \/ ~started' /\ gcall' = "ok" /\ RegistryAppended ]_vars

\* after a bean and a module were registered the application was created, and
\* a registration function was called again
C26_Witness ==
    /\ started
    /\ gcall \in RegistrationPanics
    /\ Len(globalBeans) >= 1 /\ Len(modules) >= 1

(***************************************************************************)
(* Termination of the resolution.                                          *)
(***************************************************************************)
\* a call of resolveBean on bean b is in progress
OnStack(b) == \E k \in 1 .. Len(stack) : stack[k].b = b

\* C27: while resolveBeans runs, the calls of resolveBean in progress are on
\* distinct beans, those are exactly the beans that are Resolving, and so the
\* calls are never more than the beans; a call of resolveBean that sets out
\* on a bean does so on one that is not Resolving; and resolveBeans, once
\* entered, returns, whatever cycles the conditions of the beans form.
C27_ResolutionTerminates ==
    /\ [](/\ Len(stack) <= Len(beans)
          /\ \A k, l \in 1 .. Len(stack) : k # l => stack[k].b # stack[l].b
          /\ pc = "resolve" =>
                \A i \in DOMAIN beans : beans[i].status = StatusResolving <=> OnStack(i))
    /\ [][Len(stack') > Len(stack) =>
             /\ beans[Head(stack').b].status # StatusResolving
             /\ ~OnStack(Head(stack').b)]_vars
    /\ (pc = "resolve") ~> (pc # "resolve")

\* reached: two beans whose conditions select each other are both being
\* resolved, the second from the Find of the first, and the Find of the
\* second passes over the first
C27_Witness ==
    /\ Len(stack) = 2 /\ Len(beans) = 2
    /\ InFind(stack[1]) /\ InFind(stack[2])
    /\ isBeanMatched(CondOf(stack[1]).sel.type, CondOf(stack[1]).sel.name, beans[stack[2].b])
    /\ isBeanMatched(CondOf(stack[2]).sel.type, CondOf(stack[2]).sel.name, beans[stack[1].b])
    /\ ~FindNext.call

(***************************************************************************)
(* The phases of Refresh.                                                  *)
(***************************************************************************)
\* the moves of a Refresh from phase to phase; applyModules runs in the step
\* that leaves "idle"
PhaseOrder ==
    {<<"idle", "scan">>, <<"scan", "resolve">>, <<"resolve", "dup">>,
     <<"scan", "idle">>, <<"resolve", "idle">>, <<"dup", "idle">>}

\* the conditions of module m match the properties p
Applies(m, p) == \A k \in DOMAIN m.keys : m.keys[k] \in p

\* the function of a module that is applied returns an error
ModuleFails(p) == \E i \in DOMAIN modules : Applies(modules[i], p) /\ modules[i].fails

\* a configuration bean among bs has a pattern that does not compile
ScanFails(bs) == \E i \in DOMAIN bs : bs[i].cfg.on /\ scanConfiguration(bs[i]).err

\* the beans made of the methods of the configuration bean bd are among bs
MethodsScanned(bd, bs) ==
    \A k \in DOMAIN scanConfiguration(bd).beans : Contains(bs, scanConfiguration(bd).beans[k])

\* C28: a Refresh moves from applying the modules to scanning, resolving,
\* checking duplicates and Refreshed in this order and leaves at the first
\* phase that fails: scanning starts only when no applied module failed and
\* then the beans of every applied module are held, resolving starts only
\* when no pattern failed to compile and then every configuration bean held,
\* whoever registered it, has been scanned, the state becomes Refreshed only
\* from the duplicate check; and after a Refresh that failed in a module or
\* in the scan every bean is Default and the state is not Refreshed.
C28_PhasesInOrder ==
    /\ [][pc' # pc => <<pc, pc'>> \in PhaseOrder]_vars
    /\ [][(pc = "idle" /\ state = RefreshDefault /\ state' # state) =>
             IF ModuleFails(props')
             THEN /\ pc' = "idle" /\ rets' = Append(rets, "module")
                  /\ state' = RefreshPrepare
             ELSE /\ pc' = "scan" /\ rets' = rets
                  /\ \A i \in DOMAIN modules :
                        Applies(modules[i], props') =>
                            \A k \in DOMAIN modules[i].provides :
                                Contains(beans', modules[i].provides[k])]_vars
    /\ [][pc = "scan" =>
             IF ScanFails(beans)
             THEN pc' = "idle" /\ rets' = Append(rets, "scan") /\ state' = state
             ELSE /\ pc' = "resolve" /\ rets' = rets
                  /\ SubSeq(beans', 1, Len(beans)) = beans
                  /\ \A i \in DOMAIN beans : beans[i].cfg.on => MethodsScanned(beans[i], beans')]_vars
    /\ [][(state' = Refreshed /\ state # Refreshed) =>
             (pc = "dup" /\ rets' = Append(rets, "nil"))]_vars
    /\ []((rets # <<>> /\ rets[1] \in {"module", "scan"}) =>
             /\ state # Refreshed
             /\ \A i \in DOMAIN beans : beans[i].status = StatusDefault)
    /\ []((\E i \in DOMAIN beans : beans[i].status # StatusDefault) =>
             \/ pc \in {"resolve", "dup"}
             \/ rets # <<>> /\ rets[1] \in {"resolve", "dup", "nil"})

\* reached: the container is Refreshed and holds a bean made of a method of
\* a configuration bean that a module registered
C28_Witness ==
    /\ state = Refreshed
    /\ \E i \in DOMAIN modules : \E k \in DOMAIN modules[i].provides :
          /\ modules[i].provides[k].cfg.on
          /\ \E j \in DOMAIN beans :
                /\ beans[j].status = StatusResolved
                /\ Contains(scanConfiguration(modules[i].provides[k]).beans,
                            SetStatus(beans[j], StatusDefault))

(***************************************************************************)
(* The ready signal as a barrier.                                          *)
(***************************************************************************)
\* sig.Wait has returned in App.Start
WaitReturned == mpc = "check" \/ (mpc = "started" /\ startRet \in {"nil", "intercepted"})

\* server s has called TriggerAndWait, or its Run has failed, which is
\* followed by the call of Intercept
Signalled(s) == srv[s].ready \/ srv[s].out \in {"error", "panic"}

\* the channel of the ready signal is closed only by a Start that found every
\* server ready and the signal not intercepted, and a Run that waits for the
\* channel goes on only when it is closed
GateClosedOnlyWhenAllReady ==
    /\ [][(sigClosed' /\ ~sigClosed) =>
             (~sigB /\ \A s \in Servers : srv[s].ready)]_vars
    /\ [][\A s \in Servers :
             (srv[s].pc = "waiting" /\ srv'[s].pc = "serving") =>
                 (sigClosed /\ \A t \in Servers : srv[t].ready)]_vars

\* C29: once sig.Wait has returned in App.Start every server has called
\* TriggerAndWait or Intercept, and a Run that waits for the channel of the
\* ready signal goes on only after every server signalled ready and Start
\* found the signal not intercepted.
C29_WaitAfterAllSignalled ==
    /\ [](WaitReturned => \A s \in Servers : Signalled(s))
    /\ GateClosedOnlyWhenAllReady

(***************************************************************************)
(* The order of WaitForShutdown.                                           *)
(***************************************************************************)
\* C30: a goroutine that calls the Stop of a server is started only when the
\* root context is cancelled, a WaitForShutdown that has passed the wait for
\* the context has started one for every server of app.Servers, and the
\* container is closed only when every goroutine that Start launched for
\* the Run of a server is over, all of them having been launched.
C30_ShutdownOrder ==
    /\ [][stops' # stops =>
             /\ ctxDone
             /\ \A s \in Servers : stops'[s] = stops[s] + 1]_vars
    /\ [](\A w \in Waiters :
             wpc[w] \in {"wgwait", "done"} =>
                 (ctxDone /\ \A s \in Servers : stops[s] >= 1))
    /\ [][closes' # closes =>
             /\ \A s \in Servers : srv[s].pc = "done"
             /\ \E w \in Waiters : wpc[w] = "wgwait" /\ wpc'[w] = "done"]_vars

\* reached: two servers ran, the context was cancelled, a Stop goroutine was
\* started for each and the container was closed
C30_Witness ==
    /\ nServers = 2
    /\ closes >= 1
    /\ ctxDone
    /\ \A s \in Servers : stops[s] >= 1 /\ srv[s].pc = "done" /\ srv[s].ready

(***************************************************************************)
(* The encoding of BeanStatus.                                             *)
(***************************************************************************)
\* the constants of the model are the values the const block computes
StatusesAsDeclared ==
    /\ StatusValue("StatusDeleted") = StatusDeleted
    /\ StatusValue("StatusDefault") = StatusDefault
    /\ StatusValue("StatusResolving") = StatusResolving
    /\ StatusValue("StatusResolved") = StatusResolved
    /\ StatusValue("StatusCreating") = StatusCreating
    /\ StatusValue("StatusCreated") = StatusCreated
    /\ StatusValue("StatusWired") = StatusWired

\* the part of the claim that is about the order
StatusesAscend ==
    /\ StatusDeleted = -1
    /\ StatusDeleted < StatusDefault
    /\ StatusDefault < StatusResolving /\ StatusResolving < StatusResolved
    /\ StatusResolved < StatusCreating /\ StatusCreating < StatusCreated
    /\ StatusCreated < StatusWired

\* C31: Deleted is -1 and Default is 0, the statuses from Default to Wired
\* ascend, a status that was never set reads as Default, and a bean the
\* container holds is Default exactly when its status is the zero value.
C31_StatusEncoding ==
    /\ StatusesAscend
    /\ StatusDefault = 0
    /\ StatusString(ZeroStatus) = "default"
    /\ \A i \in DOMAIN beans :
          beans[i].status = ZeroStatus <=> StatusString(beans[i].status) = "default"

(***************************************************************************)
(* The counter of the ready signal.                                        *)
(***************************************************************************)
\* C32: the counter of the ready signal is never negative, and the
\* decrement of Intercept is made only on behalf of a server whose Run has
\* not made the decrement of TriggerAndWait, and at most once for it.
C32_CounterNeverNegative ==
    /\ [](sigCount >= 0)
    /\ [][\A s \in Servers :
             (srv[s].pc = "sigdone" /\ srv'[s].pc # "sigdone") =>
                 (~srv[s].ready /\ srv'[s].pc = "cas")]_vars

(***************************************************************************)
(* The active set and the conditions.                                      *)
(***************************************************************************)
\* the selector sel of a condition selects bean b
Selected(sel, b) ==
    /\ sel.name = "" \/ sel.name = b.name
    /\ sel.type = NilType \/ sel.type \in IdentityTypes(b)

\* the beans a lookup of sel returns from the final statuses, the beans of
\* skip left out
FinalFound(sel, skip) ==
    {j \in DOMAIN beans \ skip :
        beans[j].status = StatusResolved /\ Selected(sel, beans[j])}

\* what condition c evaluates to against the final statuses
FinalOutcome(c, skip) ==
    CASE c.kind = "OnBean" -> FinalFound(c.sel, skip) # {}
      [] c.kind = "OnMissingBean" -> FinalFound(c.sel, skip) = {}
      [] c.kind = "OnSingleBean" -> Cardinality(FinalFound(c.sel, skip)) = 1
      [] c.kind = "OnProperty" -> c.key \in props
      [] OTHER -> c.res = "true"

\* bean i is as its conditions say, the beans of skip(i) left out of lookups
ConsistentWith(i, skip) ==
    /\ beans[i].status = StatusResolved =>
          \A k \in DOMAIN beans[i].conds :
              IsBeanCond(beans[i].conds[k]) => FinalOutcome(beans[i].conds[k], skip)
    /\ beans[i].status = StatusDeleted =>
          \E k \in DOMAIN beans[i].conds : ~FinalOutcome(beans[i].conds[k], skip)

\* a condition of bean i selects bean j
Selects(i, j) ==
    \E k \in DOMAIN beans[i].conds :
        /\ IsBeanCond(beans[i].conds[k])
        /\ Selected(beans[i].conds[k].sel, beans[j])

\* the beans reached from the beans of from by conditions that select them
RECURSIVE ReachedFrom(_, _)
ReachedFrom(from, n) ==
    IF n = 0 THEN from
    ELSE ReachedFrom(from \cup {j \in DOMAIN beans : \E i \in from : Selects(i, j)}, n - 1)

\* the conditions of bean i lead back to a bean they went through
OnCycle(i) ==
    \E j \in ReachedFrom({i}, Len(beans)) :
        j \in ReachedFrom({m \in DOMAIN beans : Selects(j, m)}, Len(beans))

DuplicateReported ==
    pc = "idle" /\ Len(rets) > 0 /\ rets[Len(rets)] = "dup"

\* C34: checkDuplicateBeans reports a duplicate only for two distinct beans
\* that are not deleted and share a name and an identity type: a single bean
\* never collides with itself, also when its own type is an interface type
\* that it exports.
C34_DuplicateNeedsTwoBeans ==
    DuplicateReported => ActivePairShares

(***************************************************************************)
(* OnOnce after a failed evaluation.                                       *)
(***************************************************************************)
\* C35: if the first evaluation of an OnOnce condition returned an error,
\* every later call of that condition returns an error too; it never returns
\* (false, nil) after its only evaluation failed.
C35_OnceErrorIsKept ==
    (Len(onceLog) > 0 /\ onceLog[1].err # "nil")
        => \A k \in DOMAIN onceLog : onceLog[k].err # "nil"

(***************************************************************************)
(* Two containers in one process.                                          *)
(***************************************************************************)
\* a bean whose conditions are all property conditions: whether it is
\* active depends on the properties of the Refresh alone
PropertyOnly(b) ==
    \A k \in DOMAIN b.conds : b.conds[k].kind = "OnProperty"

KeysHeld(b) ==
    \A k \in DOMAIN b.conds : b.conds[k].key \in props

\* C36: outside test mode the Refresh of a container evaluates the conditions
\* of every bean of the global registry against its own properties, whether
\* or not another container was refreshed before: when it has completed, a
\* bean whose conditions are all property conditions is Resolved if the
\* properties of this Refresh hold its keys and Deleted if they do not.
C36_ContainersIndependent ==
    (pc = "idle" /\ state = Refreshed)
        => \A i \in DOMAIN beans :
              PropertyOnly(beans[i])
                  => beans[i].status =
                        IF KeysHeld(beans[i]) THEN StatusResolved ELSE StatusDeleted

(***************************************************************************)
(* Start and a server that fails before it is ready.                       *)
(***************************************************************************)
\* Start is in sig.Wait, the counter is above zero and no goroutine is left
\* that could decrement it
StartBlockedForever ==
    /\ mpc = "wait"
    /\ sigCount > 0
    /\ \A s \in Servers : Gone(s)

\* C37: when one server fails before readiness, App.Start returns after the
\* Intercept and the ShutDown of that server, whatever the other servers do
\* once the context is cancelled; so Start is never left in sig.Wait with
\* every server goroutine ended.
C37_StartReturnsAfterFailure ==
    (\E s \in Servers : FailedBeforeReady(s) /\ srv[s].out = "error" /\ Gone(s) /\ ctxDone)
        => ~StartBlockedForever

(***************************************************************************)
(* The container of an application whose startup failed.                   *)
(***************************************************************************)
\* C38: when the container refresh inside Start succeeded, the container has
\* been closed by the time AppStarter.Run returns, also when Start failed
\* afterwards because a runner returned an error or a server was intercepted.
C38_ContainerClosedWhenRunReturns ==
    (mode = "Run" /\ mpc = "exited" /\ containerUp) => closes >= 1

(***************************************************************************)
(* The intercepted flag of the ready signal.                               *)
(***************************************************************************)
\* the goroutine of server s has made the wg.Done of an Intercept call
InterceptDecremented(s) ==
    \/ srv[s].pc \in {"cas", "cancel"}
    \/ srv[s].pc \in {"wgdone", "done"} /\ srv[s].out \in {"error", "panic"}

\* C39: Intercept sets the intercepted flag before it decrements the
\* counter: each decrement of an Intercept call finds the flag set, so when
\* Wait has returned after such a decrement Intercepted() returns true; the
\* flag is never reset; and it is false as long as no server has failed,
\* that is, as long as no Intercept call was made.
C39_FlagBeforeDecrement ==
    /\ [][\A s \in Servers :
              (srv[s].pc = "sigdone" /\ srv'[s].pc # "sigdone") => Intercepted(sigB)]_vars
    /\ []((mpc = "check" /\ \E s \in Servers : InterceptDecremented(s))
              => Intercepted(sigB))
    /\ [][Intercepted(sigB) => Intercepted(sigB')]_vars
    /\ []((\A s \in Servers : srv[s].out \notin {"error", "panic"})
              => ~Intercepted(sigB))

\* reached: Wait has returned in Start after the Intercept of a server took
\* the counter to zero, and the flag is set
C39_Witness ==
    /\ mpc = "check"
    /\ sigCount = 0
    /\ Intercepted(sigB)
    /\ \E s \in Servers : srv[s].pc = "cas" /\ ~srv[s].ready

(***************************************************************************)
(* The root context and the exiting flag.                                  *)
(***************************************************************************)
\* a caller of ShutDown that won the compare-and-swap makes app.cancel in
\* this step
CancelStep ==
    \/ \E w \in Waiters : wpc[w] = "cancel" /\ wpc'[w] # "cancel"
    \/ \E s \in Servers : srv[s].pc = "cancel" /\ srv'[s].pc # "cancel"
    \/ sgpc = "cancel" /\ sgpc' # "cancel"

\* C40: in every reachable state of an App the root context is cancelled
\* only if the exiting flag is true; Exiting() never goes from true back to
\* false; and only the app.cancel of a ShutDown call cancels the root
\* context.
C40_CancelledOnlyByShutDown ==
    /\ [](ctxDone => exiting)
    /\ [][exiting => exiting']_vars
    /\ [][(~ctxDone /\ ctxDone') => CancelStep]_vars

\* reached: a call of AppStarter.Stop cancelled the root context of an
\* application whose servers run, and waits for them
C40_Witness ==
    /\ ctxDone /\ exiting
    /\ nServers > 0
    /\ \E w \in Waiters : w # 0 /\ wpc[w] = "wgwait"
====
